---- MODULE Spec2Model ----
(***************************************************************************)
(* Model of the frame-level control layer of Voice-AI-Latency:             *)
(*   - CallNumberProvider  (app/providers/call_number_provider.py)         *)
(*   - TurnGateProcessor   (app/processors/turn_gate.py)                   *)
(*   - LatencyInjector     (app/processors/latency_injector.py)            *)
(*   - the pipeline order of build_pipeline (app/pipelines/call_pipeline)  *)
(***************************************************************************)
EXTENDS Integers, Sequences, FiniteSets, TLC

(***************************************************************************)
(* Bounds and program constants                                            *)
(***************************************************************************)
PoolSize == 3
NThreads == 3
MaxCalls == 2
NSetups == 2
MaxSetupCalls == 3

RANGE_START == 501
RANGE_END == RANGE_START + PoolSize - 1

Threads == 1..NThreads
Providers == Threads
Ids == RANGE_START..RANGE_END
\* ids a call can be observed to return (the range and its two neighbours)
IdSpace == (RANGE_START - 1)..(RANGE_END + 1)

\* contents of the pool file: no file, a file opened for writing and not yet
\* written (empty), or a JSON list
NoFile == [st |-> "nofile", data |-> <<>>]
Truncated == [st |-> "truncated", data |-> <<>>]
\* a file holding the JSON list l
ListFile(l) == [st |-> "list", data |-> l]

VARIABLES
    file,       \* pool file of settings.providers.call_numbers_pool_file
    mode,       \* "shared": all callers use one provider instance;
                \* "percall": every call constructs its own (build_pipeline)
    lock,       \* lock[p]: thread holding provider p's _lock, 0 when free
    pc,         \* pc[t]: position of thread t
    pool,       \* pool[t]: local variable pool of the running call
    number,     \* number[t]: local variable number of get_number
    calls,      \* calls[t]: get_number() invocations started by t
    issuedCount,\* issuedCount[i]: how many times id i was returned
    raisedCount,\* number of RuntimeError("No call numbers left") raised
    decodeErrors, \* number of loads that hit a truncated file
    emptied     \* the persisted pool has been the empty list

poolVars == <<file, mode, lock, pc, pool, number, calls,
              issuedCount, raisedCount, decodeErrors, emptied>>

MaxGateOps == 5

VARIABLES
    enabled,    \* TurnGateProcessor._enabled
    mute,       \* TurnGateProcessor._mute
    dropped,    \* TurnGateProcessor._dropped
    saw_user_since_enable,  \* TurnGateProcessor._saw_user_since_enable
    gLog,       \* history of the gate: one entry per processed frame or
                \* enable()/disable() call, with the state it met
    gDir,       \* direction the last frame came with and was pushed with
    gOut        \* the frames the gate has pushed on, in the order of the
                \* push_frame calls, each with its position in gLog

gateVars == <<enabled, mute, dropped, saw_user_since_enable, gLog, gDir, gOut>>

MaxInjFrames == 4
MaxInjQueue == 2
NGreet == 2
MaxTurns == 2

\* settings.latency.choices_s, in tenths of a second: [3.0, 7.0, 0.1]
LATENCY_CHOICES == <<30, 70, 1>>
\* a candidate list handed to LatencyInjector(choices=...)
OwnChoices == <<5, 20>>
\* latency_seconds is None
NoLatency == 0 - 1

VARIABLES
    busy,             \* LatencyInjector._busy
    latency_seconds,  \* LatencyInjector._latency_seconds
    strategy,         \* LatencyInjector._strategy
    choices,          \* LatencyInjector._choices
    cycle_pos,        \* position of the module's _latency_cycle
    iQueue,           \* frames queued for the injector, in arrival order
    iPc,              \* position inside process_frame
    iCur,             \* the frame in process_frame (or the last one)
    iTrace,           \* what process_frame has done for iCur, in order
    iSlept,           \* duration of the last asyncio.sleep
    iUp,              \* STTMuteFrame.mute values pushed upstream so far
    iOut,             \* frames pushed on by the injector so far
    iCount            \* frames that have reached the injector

injVars == <<busy, latency_seconds, strategy, choices, cycle_pos, iQueue,
             iPc, iCur, iTrace, iSlept, iUp, iOut, iCount>>

VARIABLES
    connected,    \* on_client_connected has run
    turns,        \* caller turns handed to the assistant so far
    speech,       \* utterances the stages after the injector still have
                  \* to speak, in order
    speaking,     \* what the assistant is speaking: "none", "greeting",
                  \* "response"
    recorded      \* choosen_latency of the call record write_initial_call
                  \* has written (NoLatency: no record yet)

pipeVars == <<connected, turns, speech, speaking, recorded>>

VARIABLES
    mute_reply    \* the last call of should_mute_callback: the two flags it
                  \* read and what it returned

queryVars == <<mute_reply>>

NSessions == 3
MaxEarlier == 2

VARIABLES
    sPc,        \* each connection's position in build_pipeline
    sLatency,   \* _latency_seconds of the connection's LatencyInjector
    sCall,      \* call_id of the connection (0: none)
    sRaised,    \* get_number() raised for the connection
    sOrd,       \* how many next(_latency_cycle) calls the process had made
                \* before the connection's own (NoLatency: it made none)
    sPos,       \* position of the cycle the connection's pick took its
                \* value from (NoLatency: none)
    sRecord,    \* what write_initial_call has written for the connection
    sTask,      \* the connection's Pipeline and PipelineTask exist
    draws,      \* next(_latency_cycle) calls made in this process so far
    earlier     \* of which before the connections of this model

setupVars == <<sPc, sLatency, sCall, sRaised, sOrd, sPos, sRecord, sTask,
               draws, earlier>>

VARIABLES
    task_state,        \* the PipelineTask: "running", "finished" (the
                       \* pipeline ended by itself) or "cancelled"
    has_is_cancelled,  \* hasattr(task, "is_cancelled")
    runPc,             \* run_pipeline: "run" (awaiting runner.run) or "done"
    discPc,            \* on_client_disconnected: "idle" or "done"
    cancelCalls,       \* the task.cancel() calls so far: who called, and
                       \* the task state the call met
    absorbed,          \* errors of task.cancel() that were caught
    escaped,           \* the functions an error of task.cancel() has left
    cancelledAt        \* where process_frame stood when the task was
                       \* cancelled ("none": not cancelled)

cancelVars == <<task_state, has_is_cancelled, runPc, discPc, cancelCalls,
                absorbed, escaped, cancelledAt>>

MaxPcmBytes == 4

VARIABLES
    sample_rate,      \* ACSFrameSerializer._sample_rate, in kHz
    negotiated,       \* the last non-zero audio_in_sample_rate that setup
                      \* was given (0: none so far)
    auto_stop_audio,  \* ACSFrameSerializer._params.auto_stop_audio
    serOp,            \* the last call: "none", "setup", "serialize" or
                      \* "deserialize"
    serIn,            \* its argument
    serOut            \* what it returned, or the exception that left it

serVars == <<sample_rate, negotiated, auto_stop_audio, serOp, serIn, serOut>>

auxVars == <<queryVars, setupVars, cancelVars, serVars>>

vars == <<poolVars, gateVars, injVars, pipeVars, auxVars>>

(***************************************************************************)
(* Helpers                                                                 *)
(***************************************************************************)
IsList(f) == f.st = "list"

RECURSIVE RangeList(_, _)
\* [f"{i:03d}" for i in range(a, b + 1)]
RangeList(a, b) == IF a > b THEN <<>> ELSE <<a>> \o RangeList(a + 1, b)

FullPool_HalfOpen == RangeList(RANGE_START, RANGE_END - 1)

FullPool == RangeList(RANGE_START, RANGE_END)

\* the decimal digits of n, most significant first
RECURSIVE Digits(_)
Digits(n) == IF n < 10 THEN <<n>> ELSE Append(Digits(n \div 10), n % 10)

\* f"{i:03d}": the digits of i, padded with zeros on the left to three
FormatId(i) ==
    LET ds == Digits(i) IN
        IF Len(ds) >= 3 THEN ds
        ELSE [k \in 1..(3 - Len(ds)) |-> 0] \o ds

Elems(s) == {s[i] : i \in 1..Len(s)}

RECURSIVE ListRemove(_, _)
\* list.remove(x): removes the first occurrence
ListRemove(s, x) ==
    IF s = <<>> THEN <<>>
    ELSE IF Head(s) = x THEN Tail(s)
    ELSE <<Head(s)>> \o ListRemove(Tail(s), x)

(***************************************************************************)
(* CallNumberProvider.__init__ / _ensure_pool / _save_pool                 *)
(***************************************************************************)
\* the provider instance a thread calls: the one shared instance, or the
\* instance the thread's own call setup constructed
Prov(t) == IF mode = "shared" THEN 1 ELSE t

CallLimit == IF mode = "shared" THEN MaxCalls ELSE MaxSetupCalls

\* position after get_number() has returned or raised: a caller of the shared
\* provider may call again, a call setup is over
AfterCall == IF mode = "shared" THEN "ready" ELSE "start"

\* CallNumberProvider(): a new instance with its own, free threading.Lock;
\* then _ensure_pool tests self._pool_path.exists()
CtorExists(t) ==
    /\ pc[t] = "start"
    /\ t <= NSetups
    /\ calls[t] < CallLimit
    /\ lock' = [lock EXCEPT ![Prov(t)] = 0]
    /\ pc' = [pc EXCEPT ![t] = IF file = NoFile THEN "ctor_open" ELSE "ready"]
    /\ UNCHANGED <<file, mode, pool, number, calls, issuedCount, raisedCount,
                   decodeErrors,
                   emptied>>

\* _ensure_pool builds the list; _save_pool: open(path, "w") truncates the file
CtorOpen(t) ==
    /\ pc[t] = "ctor_open"
    /\ file' = Truncated
    /\ pool' = [pool EXCEPT ![t] = FullPool]
    /\ pc' = [pc EXCEPT ![t] = "ctor_dump"]
    /\ UNCHANGED <<mode, lock, number, calls, issuedCount, raisedCount,
                   decodeErrors,
                   emptied>>

\* _save_pool: json.dump and close
CtorDump(t) ==
    /\ pc[t] = "ctor_dump"
    /\ file' = ListFile(pool[t])
    /\ emptied' = (emptied \/ pool[t] = <<>>)
    /\ pool' = [pool EXCEPT ![t] = <<>>]
    /\ pc' = [pc EXCEPT ![t] = "ready"]
    /\ UNCHANGED <<mode, lock, number, calls, issuedCount, raisedCount,
                   decodeErrors>>

(***************************************************************************)
(* CallNumberProvider.get_number                                           *)
(***************************************************************************)
LockFree_NoLock(p) == TRUE

LockFree(p) == lock[p] = 0

\* with self._lock: (blocks while another thread holds this instance's lock)
Acquire(t) ==
    /\ pc[t] = "ready"
    /\ calls[t] < CallLimit
    /\ LockFree(Prov(t))
    /\ lock' = [lock EXCEPT ![Prov(t)] = t]
    /\ calls' = [calls EXCEPT ![t] = @ + 1]
    /\ pc' = [pc EXCEPT ![t] = "load"]
    /\ UNCHANGED <<file, mode, pool, number, issuedCount, raisedCount,
                   decodeErrors,
                   emptied>>

\* pool = self._load_pool()
Load(t) ==
    /\ pc[t] = "load"
    /\ IsList(file)
    /\ pool' = [pool EXCEPT ![t] = file.data]
    /\ pc' = [pc EXCEPT ![t] = "pick"]
    /\ UNCHANGED <<file, mode, lock, number, calls, issuedCount, raisedCount,
                   decodeErrors,
                   emptied>>

\* json.load of a file another writer has just truncated raises; the with
\* block releases the lock
LoadTruncated(t) ==
    /\ pc[t] = "load"
    /\ file = Truncated
    /\ decodeErrors' = decodeErrors + 1
    /\ lock' = [lock EXCEPT ![Prov(t)] = 0]
    /\ pc' = [pc EXCEPT ![t] = AfterCall]
    /\ UNCHANGED <<file, mode, pool, number, calls, issuedCount, raisedCount,
                   emptied>>

\* if not pool: raise RuntimeError(...)  (the with block releases the lock)
RaiseExhausted(t) ==
    /\ pc[t] = "pick"
    /\ pool[t] = <<>>
    /\ raisedCount' = raisedCount + 1
    /\ lock' = [lock EXCEPT ![Prov(t)] = 0]
    /\ pc' = [pc EXCEPT ![t] = AfterCall]
    /\ UNCHANGED <<file, mode, pool, number, calls, issuedCount, decodeErrors,
                   emptied>>

\* the list after pool.remove(number)
Removed(p, n) == ListRemove(p, n)

\* number = random.choice(pool); pool.remove(number)
Pick(t) ==
    /\ pc[t] = "pick"
    /\ pool[t] # <<>>
    /\ \E n \in Elems(pool[t]) :
          /\ number' = [number EXCEPT ![t] = n]
          /\ pool' = [pool EXCEPT ![t] = Removed(pool[t], n)]
    /\ pc' = [pc EXCEPT ![t] = "save_open"]
    /\ UNCHANGED <<file, mode, lock, calls, issuedCount, raisedCount,
                   decodeErrors,
                   emptied>>

\* self._save_pool(pool): open(path, "w") truncates the file
SaveOpen(t) ==
    /\ pc[t] = "save_open"
    /\ file' = Truncated
    /\ pc' = [pc EXCEPT ![t] = "save_dump"]
    /\ UNCHANGED <<mode, lock, pool, number, calls, issuedCount, raisedCount,
                   decodeErrors,
                   emptied>>

\* self._save_pool(pool): json.dump and close
SaveDump(t) ==
    /\ pc[t] = "save_dump"
    /\ file' = ListFile(pool[t])
    /\ emptied' = (emptied \/ pool[t] = <<>>)
    /\ pc' = [pc EXCEPT ![t] = "return"]
    /\ UNCHANGED <<mode, lock, pool, number, calls, issuedCount, raisedCount,
                   decodeErrors>>

\* return number (leaving the with block releases the lock; the locals die)
Return(t) ==
    /\ pc[t] = "return"
    /\ issuedCount' = [issuedCount EXCEPT ![number[t]] = @ + 1]
    /\ lock' = [lock EXCEPT ![Prov(t)] = 0]
    /\ pool' = [pool EXCEPT ![t] = <<>>]
    /\ number' = [number EXCEPT ![t] = 0]
    /\ pc' = [pc EXCEPT ![t] = AfterCall]
    /\ UNCHANGED <<file, mode, calls, raisedCount, decodeErrors,
                   emptied>>

(***************************************************************************)
(* TurnGateProcessor                                                       *)
(***************************************************************************)
GateKinds == {"UserStartedSpeakingFrame", "UserStoppedSpeakingFrame",
              "BotStartedSpeakingFrame", "BotStoppedSpeakingFrame",
              "InputAudioRawFrame", "UserAudioRawFrame", "OtherFrame"}

Directions == {"DOWNSTREAM", "UPSTREAM"}

\* isinstance(frame, (InputAudioRawFrame, UserAudioRawFrame))
IsAudio(k) == k \in {"InputAudioRawFrame", "UserAudioRawFrame"}

IsUnmuteFrame_OnBotStart(k) ==
    k \in {"BotStartedSpeakingFrame", "BotStoppedSpeakingFrame"}

\* isinstance(frame, BotStoppedSpeakingFrame)
IsUnmuteFrame(k) == k = "BotStoppedSpeakingFrame"

MuteGuard_Unarmed(saw) == TRUE

\* the guard of the mute transition: if self._saw_user_since_enable
MuteGuard(saw) == saw

DropsFrame_InputOnly(m, k) == m /\ k = "InputAudioRawFrame"

\* the drop test: self._mute and the frame is an audio frame
DropsFrame(m, k) == m /\ IsAudio(k)

\* TurnGateProcessor.__init__
GateInit ==
    /\ enabled = TRUE
    /\ mute = FALSE
    /\ dropped = 0
    /\ saw_user_since_enable = FALSE
    /\ gLog = <<>>
    /\ gDir = [in |-> "none", out |-> "none"]
    /\ gOut = <<>>

\* the entry logged for an operation: the state the operation met and
\* whether the frame was pushed on
LogEntry(k, fwd) ==
    [kind |-> k, fwd |-> fwd, en |-> enabled, muted |-> mute,
     armed |-> saw_user_since_enable]

\* await self.push_frame(frame, direction): the frame joins the output
PushedOn_Twice(out, k, n) ==
    out \o <<[kind |-> k, seq |-> n], [kind |-> k, seq |-> n]>>

PushedOn(out, k, n) == Append(out, [kind |-> k, seq |-> n])

GateEnable_KeepsArmed ==
    /\ Len(gLog) < MaxGateOps
    /\ enabled' = TRUE
    /\ mute' = FALSE
    /\ dropped' = 0
    /\ gLog' = Append(gLog, LogEntry("enable", FALSE))
    /\ UNCHANGED <<saw_user_since_enable, gDir, gOut>>

\* enable()
GateEnable ==
    /\ Len(gLog) < MaxGateOps
    /\ enabled' = TRUE
    /\ mute' = FALSE
    /\ dropped' = 0
    /\ saw_user_since_enable' = FALSE
    /\ gLog' = Append(gLog, LogEntry("enable", FALSE))
    /\ UNCHANGED <<gDir, gOut>>

GateDisable_KeepsCounter ==
    /\ Len(gLog) < MaxGateOps
    /\ enabled' = FALSE
    /\ mute' = FALSE
    /\ saw_user_since_enable' = FALSE
    /\ gLog' = Append(gLog, LogEntry("disable", FALSE))
    /\ UNCHANGED <<dropped, gDir, gOut>>

\* disable()
GateDisable ==
    /\ Len(gLog) < MaxGateOps
    /\ enabled' = FALSE
    /\ mute' = FALSE
    /\ dropped' = 0
    /\ saw_user_since_enable' = FALSE
    /\ gLog' = Append(gLog, LogEntry("disable", FALSE))
    /\ UNCHANGED <<gDir, gOut>>

GatePassDisabled_Arms(k, d) ==
    /\ ~enabled
    /\ gLog' = Append(gLog, LogEntry(k, TRUE))
    /\ gDir' = [in |-> d, out |-> d]
    /\ gOut' = PushedOn(gOut, k, Len(gLog) + 1)
    /\ saw_user_since_enable' =
          (saw_user_since_enable \/ k = "UserStartedSpeakingFrame")
    /\ UNCHANGED <<enabled, mute, dropped>>

\* process_frame while disabled: push the frame, touch nothing
GatePassDisabled(k, d) ==
    /\ ~enabled
    /\ gLog' = Append(gLog, LogEntry(k, TRUE))
    /\ gDir' = [in |-> d, out |-> d]
    /\ gOut' = PushedOn(gOut, k, Len(gLog) + 1)
    /\ UNCHANGED <<enabled, mute, dropped, saw_user_since_enable>>

SawAfter_KeptOnBotStop(k) ==
    IF k = "UserStartedSpeakingFrame" THEN TRUE
    ELSE saw_user_since_enable

\* _saw_user_since_enable after the state machine has seen a frame of kind k
SawAfter(k) ==
    IF k = "UserStartedSpeakingFrame" THEN TRUE
    ELSE IF k = "UserStoppedSpeakingFrame" THEN saw_user_since_enable
    ELSE IF IsUnmuteFrame(k) THEN FALSE
    ELSE saw_user_since_enable

MuteAfter_StaysOnBotStop(k) ==
    IF k = "UserStoppedSpeakingFrame"
    THEN (IF MuteGuard(saw_user_since_enable) THEN TRUE ELSE mute)
    ELSE mute

\* _mute after the state machine has seen a frame of kind k
MuteAfter(k) ==
    IF k = "UserStartedSpeakingFrame" THEN mute
    ELSE IF k = "UserStoppedSpeakingFrame"
         THEN (IF MuteGuard(saw_user_since_enable) THEN TRUE ELSE mute)
    ELSE IF IsUnmuteFrame(k) THEN FALSE
    ELSE mute

\* _dropped after the state machine (before the drop test)
DroppedAfter(k) ==
    IF k = "UserStoppedSpeakingFrame" /\ MuteGuard(saw_user_since_enable)
    THEN 0 ELSE dropped

\* process_frame while enabled: state machine, then drop or push
GateProcessEnabled(k, d) ==
    /\ enabled
    /\ saw_user_since_enable' = SawAfter(k)
    /\ mute' = MuteAfter(k)
    /\ IF DropsFrame(MuteAfter(k), k)
       THEN /\ dropped' = DroppedAfter(k) + 1
            /\ gLog' = Append(gLog, LogEntry(k, FALSE))
            /\ gDir' = [in |-> d, out |-> "none"]
            /\ UNCHANGED gOut
       ELSE /\ dropped' = DroppedAfter(k)
            /\ gLog' = Append(gLog, LogEntry(k, TRUE))
            /\ gDir' = [in |-> d, out |-> d]
            /\ gOut' = PushedOn(gOut, k, Len(gLog) + 1)
    /\ UNCHANGED enabled

\* TurnGateProcessor.process_frame(frame, direction)
GateProcessFrame ==
    /\ Len(gLog) < MaxGateOps
    /\ \E k \in GateKinds, d \in Directions :
          \/ GatePassDisabled(k, d)
          \/ GateProcessEnabled(k, d)

GateNext ==
    \/ GateProcessFrame
    \/ GateEnable
    \/ GateDisable

(***************************************************************************)
(* LatencyInjector                                                         *)
(***************************************************************************)
InjKinds == {"OpenAILLMContextFrame", "LLMMessagesFrame", "TTSSpeakFrame",
             "OtherFrame"}

Frame(k, d) == [kind |-> k, dir |-> d]

\* isinstance(frame, (OpenAILLMContextFrame, LLMMessagesFrame))
IsContextFrame(k) == k \in {"OpenAILLMContextFrame", "LLMMessagesFrame"}

TriggersHold_AnyDirection(k, d) == IsContextFrame(k)

\* condition of the first if of process_frame
TriggersHold(k, d) == d = "DOWNSTREAM" /\ IsContextFrame(k)

TriggersUnmute_IgnoreBusy(b, k, d) ==
    d = "DOWNSTREAM" /\ k = "TTSSpeakFrame"

\* condition of the second if of process_frame
TriggersUnmute(b, k, d) == b /\ d = "DOWNSTREAM" /\ k = "TTSSpeakFrame"

BusyAfterSleep_Cleared(b) == FALSE

\* _busy when the sleep has ended: process_frame does not touch it there
BusyAfterSleep(b) == b

\* LatencyInjector.__init__
InjInit ==
    /\ busy = FALSE
    /\ latency_seconds = NoLatency
    /\ iQueue = <<>>
    /\ iPc = "idle"
    /\ iCur = [kind |-> "none", dir |-> "none", busy0 |-> FALSE]
    /\ iTrace = <<>>
    /\ iSlept = NoLatency
    /\ iUp = <<>>
    /\ iOut = <<>>
    /\ iCount = 0

\* next(_latency_cycle): itertools.cycle(LATENCY_CHOICES)
CycleValue_FromEnd(pos) == LATENCY_CHOICES[Len(LATENCY_CHOICES) - pos]

CycleValue(pos) == LATENCY_CHOICES[pos + 1]

CycleAdvance_Stuck(pos) == pos

CycleAdvance(pos) == (pos + 1) % Len(LATENCY_CHOICES)

\* _pick_latency(): "if self._latency_seconds is None"
NeedsPick_Always(l) == TRUE

NeedsPick(l) == l = NoLatency

\* _pick_latency(): picks once, then returns the cached value
PickLatency ==
    IF NeedsPick(latency_seconds)
    THEN IF strategy = "random"
         THEN /\ \E i \in 1..Len(choices) : latency_seconds' = choices[i]
              /\ UNCHANGED cycle_pos
         ELSE /\ latency_seconds' = CycleValue(cycle_pos)
              /\ cycle_pos' = CycleAdvance(cycle_pos)
    ELSE UNCHANGED <<latency_seconds, cycle_pos>>

\* a frame reaches the injector
InjArrive(k, d) ==
    /\ iCount < MaxInjFrames
    /\ Len(iQueue) < MaxInjQueue
    /\ iQueue' = Append(iQueue, Frame(k, d))
    /\ iCount' = iCount + 1
    /\ UNCHANGED <<busy, latency_seconds, strategy, choices, cycle_pos, iPc,
                   iCur, iTrace, iSlept, iUp, iOut>>

\* process_frame is entered with the next queued frame; for a downstream
\* context frame it pushes STTMuteFrame(mute=True) upstream
InjBegin ==
    /\ iPc = "idle"
    /\ iQueue # <<>>
    /\ LET f == Head(iQueue) IN
          /\ iCur' = [kind |-> f.kind, dir |-> f.dir, busy0 |-> busy]
          /\ IF TriggersHold(f.kind, f.dir)
             THEN /\ iUp' = Append(iUp, TRUE)
                  /\ iTrace' = <<"mute">>
                  /\ iPc' = "set_busy"
             ELSE /\ iUp' = iUp
                  /\ iTrace' = <<>>
                  /\ iPc' = "check"
    /\ iQueue' = Tail(iQueue)
    /\ UNCHANGED <<busy, latency_seconds, strategy, choices, cycle_pos,
                   iSlept, iOut, iCount>>

\* self._busy = True
InjSetBusy ==
    /\ iPc = "set_busy"
    /\ busy' = TRUE
    /\ iTrace' = Append(iTrace, "busy_on")
    /\ iPc' = "pick"
    /\ UNCHANGED <<latency_seconds, strategy, choices, cycle_pos, iQueue,
                   iCur, iSlept, iUp, iOut, iCount>>

\* latency = await self._pick_latency()
InjPick ==
    /\ iPc = "pick"
    /\ PickLatency
    /\ iTrace' = Append(iTrace, "pick")
    /\ iPc' = "sleep"
    /\ UNCHANGED <<busy, strategy, choices, iQueue, iCur, iSlept, iUp, iOut,
                   iCount>>

InjSleep_FirstChoice ==
    /\ iPc = "sleep"
    /\ iSlept' = choices[1]
    /\ busy' = BusyAfterSleep(busy)
    /\ iTrace' = Append(iTrace, "sleep")
    /\ iPc' = "check"
    /\ UNCHANGED <<latency_seconds, strategy, choices, cycle_pos, iQueue,
                   iCur, iUp, iOut, iCount>>

\* await asyncio.sleep(latency) has run to its end
InjSleep ==
    /\ iPc = "sleep"
    /\ iSlept' = latency_seconds
    /\ busy' = BusyAfterSleep(busy)
    /\ iTrace' = Append(iTrace, "sleep")
    /\ iPc' = "check"
    /\ UNCHANGED <<latency_seconds, strategy, choices, cycle_pos, iQueue,
                   iCur, iUp, iOut, iCount>>

\* the second if: push STTMuteFrame(mute=False) upstream, or skip
InjCheck ==
    /\ iPc = "check"
    /\ IF TriggersUnmute(busy, iCur.kind, iCur.dir)
       THEN /\ iUp' = Append(iUp, FALSE)
            /\ iTrace' = Append(iTrace, "unmute")
            /\ iPc' = "clear_busy"
       ELSE /\ iUp' = iUp
            /\ iTrace' = iTrace
            /\ iPc' = "push"
    /\ UNCHANGED <<busy, latency_seconds, strategy, choices, cycle_pos,
                   iQueue, iCur, iSlept, iOut, iCount>>

InjClearBusy_Keeps ==
    /\ iPc = "clear_busy"
    /\ iTrace' = Append(iTrace, "busy_off")
    /\ iPc' = "push"
    /\ UNCHANGED <<busy, latency_seconds, strategy, choices, cycle_pos,
                   iQueue, iCur, iSlept, iUp, iOut, iCount>>

\* self._busy = False
InjClearBusy ==
    /\ iPc = "clear_busy"
    /\ busy' = FALSE
    /\ iTrace' = Append(iTrace, "busy_off")
    /\ iPc' = "push"
    /\ UNCHANGED <<latency_seconds, strategy, choices, cycle_pos, iQueue,
                   iCur, iSlept, iUp, iOut, iCount>>

\* await self.push_frame(frame, direction)
InjPush ==
    /\ iPc = "push"
    /\ iOut' = Append(iOut, Frame(iCur.kind, iCur.dir))
    /\ iTrace' = Append(iTrace, "push")
    /\ iPc' = "idle"
    /\ UNCHANGED <<busy, latency_seconds, strategy, choices, cycle_pos,
                   iQueue, iCur, iSlept, iUp, iCount>>

\* LatencyInjector.process_frame, one statement at a time
InjStep ==
    \/ InjBegin
    \/ InjSetBusy
    \/ InjPick
    \/ InjSleep
    \/ InjCheck
    \/ InjClearBusy
    \/ InjPush

\* _pick_latency() called from outside process_frame (build_pipeline)
InjPickCall ==
    /\ PickLatency
    /\ UNCHANGED <<busy, strategy, choices, iQueue, iPc, iCur, iTrace,
                   iSlept, iUp, iOut, iCount>>

(***************************************************************************)
(* Specifications of the call-number pool                                  *)
(***************************************************************************)
\* nobody has asked should_mute_callback yet
QueryIdle == mute_reply = [asked |-> FALSE, bot |-> FALSE, busy |-> FALSE,
                           reply |-> FALSE]

Sessions == 1..NSessions

NoRecord == [call_id |-> 0, latency |-> NoLatency]

\* no connection has reached build_pipeline
SetupInit ==
    /\ sPc = [c \in Sessions |-> "new"]
    /\ sLatency = [c \in Sessions |-> NoLatency]
    /\ sCall = [c \in Sessions |-> 0]
    /\ sRaised = [c \in Sessions |-> FALSE]
    /\ sOrd = [c \in Sessions |-> NoLatency]
    /\ sPos = [c \in Sessions |-> NoLatency]
    /\ sRecord = [c \in Sessions |-> NoRecord]
    /\ sTask = [c \in Sessions |-> FALSE]

SetupIdle ==
    /\ SetupInit
    /\ draws = 0
    /\ earlier = 0

\* build_pipeline has returned its artifacts, run_pipeline awaits the run
CancelInit ==
    /\ task_state = "running"
    /\ runPc = "run"
    /\ discPc = "idle"
    /\ cancelCalls = <<>>
    /\ absorbed = 0
    /\ escaped = {}
    /\ cancelledAt = "none"

CancelIdle ==
    /\ CancelInit
    /\ has_is_cancelled = TRUE

\* InputParams.sample_rate = 16_000, and the 16 kHz of the wire format
DEFAULT_RATE == 16
WIRE_RATE == 16

\* sample rates in kHz; 0 stands for a rate that is None, 0 or absent
Rates == {0, 8, 16, 24}

NoFrame == [kind |-> "-", len |-> 0, rate |-> 0, channels |-> 0, msg |-> "-"]
NoMsg == [json |-> "-", kind |-> "-", Kind |-> "-", payloadKey |-> "-",
          payload |-> "-", dataKey |-> "-", b64 |-> "-", len |-> 0,
          rate |-> 0]
NoInput == [frame |-> NoFrame, msg |-> NoMsg]
NoOutput == [out |-> "none", kind |-> "-", len |-> 0, rate |-> 0,
             channels |-> 0, silent |-> FALSE, exc |-> "-"]

\* ACSFrameSerializer.__init__ with the default InputParams
SerInit ==
    /\ sample_rate = DEFAULT_RATE
    /\ negotiated = 0
    /\ serOp = "none"
    /\ serIn = NoInput
    /\ serOut = NoOutput

SerIdle ==
    /\ SerInit
    /\ auto_stop_audio = TRUE

AuxIdle == QueryIdle /\ SetupIdle /\ CancelIdle /\ SerIdle

\* the injector and the pipeline of a session that has not started
InjIdle ==
    /\ InjInit
    /\ strategy = "round_robin"
    /\ choices = LATENCY_CHOICES
    /\ cycle_pos = 0
    /\ connected = FALSE
    /\ recorded = NoLatency
    /\ turns = 0
    /\ speech = <<>>
    /\ speaking = "none"

PoolInitCommon ==
    /\ lock = [p \in Providers |-> 0]
    /\ pool = [t \in Threads |-> <<>>]
    /\ number = [t \in Threads |-> 0]
    /\ calls = [t \in Threads |-> 0]
    /\ issuedCount = [i \in IdSpace |-> 0]
    /\ raisedCount = 0
    /\ decodeErrors = 0
    /\ emptied = FALSE

\* the pool of a provider nobody calls
PoolIdle ==
    /\ PoolInitCommon
    /\ mode = "shared"
    /\ file = ListFile(FullPool)
    /\ pc = [t \in Threads |-> "ready"]

\* one provider, constructed when no pool file existed, shared by all callers
InitShared ==
    /\ AuxIdle
    /\ PoolInitCommon
    /\ GateInit
    /\ InjIdle
    /\ mode = "shared"
    /\ file = ListFile(FullPool)
    /\ pc = [t \in Threads |-> "ready"]

\* build_pipeline: every call setup runs CallNumberProvider().get_number();
\* the pool file was created by an earlier provider
InitPerCall ==
    /\ AuxIdle
    /\ PoolInitCommon
    /\ GateInit
    /\ InjIdle
    /\ mode = "percall"
    /\ file = ListFile(FullPool)
    /\ pc = [t \in Threads |-> "start"]

\* as InitPerCall, before any provider has created the pool file
InitFresh ==
    /\ AuxIdle
    /\ PoolInitCommon
    /\ GateInit
    /\ InjIdle
    /\ mode = "percall"
    /\ file = NoFile
    /\ pc = [t \in Threads |-> "start"]

GetNumberStep(t) ==
    \/ Acquire(t)
    \/ Load(t)
    \/ RaiseExhausted(t)
    \/ Pick(t)
    \/ SaveOpen(t)
    \/ SaveDump(t)
    \/ Return(t)

NextShared ==
    /\ \E t \in Threads : GetNumberStep(t)
    /\ UNCHANGED <<gateVars, injVars, pipeVars, auxVars>>

NextPerCall ==
    /\ \E t \in Threads :
          \/ CtorExists(t)
          \/ GetNumberStep(t)
          \/ LoadTruncated(t)
    /\ UNCHANGED <<gateVars, injVars, pipeVars, auxVars>>

NextFresh ==
    /\ \E t \in Threads :
          \/ CtorExists(t)
          \/ CtorOpen(t)
          \/ CtorDump(t)
          \/ GetNumberStep(t)
          \/ LoadTruncated(t)
    /\ UNCHANGED <<gateVars, injVars, pipeVars, auxVars>>

SpecShared == InitShared /\ [][NextShared]_vars
SpecPerCall == InitPerCall /\ [][NextPerCall]_vars
SpecFresh == InitFresh /\ [][NextFresh]_vars

(***************************************************************************)
(* Specification of the turn gate: any frames, enable() and disable()      *)
(***************************************************************************)
InitGate ==
    /\ AuxIdle
    /\ PoolIdle
    /\ GateInit
    /\ InjIdle

NextGate == GateNext /\ UNCHANGED <<poolVars, injVars, pipeVars, auxVars>>

SpecGate == InitGate /\ [][NextGate]_vars

(***************************************************************************)
(* Specification of the injector: any frames in any direction              *)
(***************************************************************************)
InitInj ==
    /\ AuxIdle
    /\ PoolIdle
    /\ GateInit
    /\ InjInit
    /\ strategy \in {"random", "round_robin"}
    /\ choices \in {LATENCY_CHOICES, OwnChoices}
    /\ cycle_pos = 0
    /\ connected = FALSE
    /\ recorded = NoLatency
    /\ turns = 0
    /\ speech = <<>>
    /\ speaking = "none"

NextInj ==
    /\ \/ \E k \in InjKinds, d \in Directions : InjArrive(k, d)
       \/ InjStep
       \/ InjPickCall
    /\ UNCHANGED <<poolVars, gateVars, pipeVars, auxVars>>

SpecInj == InitInj /\ [][NextInj]_vars

(***************************************************************************)
(* The pipeline assembled by build_pipeline, seen from the injector:       *)
(*   transport.input, turn_gate, stt_mute, stt, context_aggregator.user,   *)
(*   latency, llm, tts, transport.output, audiobuffer, aggregator.assistant*)
(***************************************************************************)
\* what the stages after the injector make of a frame the injector pushed
\* downstream: a TTSSpeakFrame is spoken as it is, a context frame is
\* answered by the language model and the answer is spoken
Utterance(f) ==
    IF f.dir # "DOWNSTREAM" THEN <<>>
    ELSE IF f.kind = "TTSSpeakFrame" THEN <<"greeting">>
    ELSE IF IsContextFrame(f.kind) THEN <<"response">>
    ELSE <<>>

RECURSIVE Repeat(_, _)
Repeat(x, n) == IF n = 0 THEN <<>> ELSE <<x>> \o Repeat(x, n - 1)

\* chosen_latency = await latency._pick_latency(), and
\* write_initial_call(call_id=call_id, choosen_latency=chosen_latency, ...)
BuildPick ==
    /\ ~connected
    /\ latency_seconds = NoLatency
    /\ InjPickCall
    /\ recorded' = latency_seconds'
    /\ UNCHANGED <<connected, turns, speech, speaking>>

\* on_client_connected: task.queue_frames([TTSSpeakFrame(...), ...]); the
\* frames run down the pipeline from its source and reach the injector
ClientConnected ==
    /\ ~connected
    /\ latency_seconds # NoLatency
    /\ connected' = TRUE
    /\ iQueue' = iQueue \o Repeat(Frame("TTSSpeakFrame", "DOWNSTREAM"), NGreet)
    /\ iCount' = iCount + NGreet
    /\ UNCHANGED <<busy, latency_seconds, strategy, choices, cycle_pos, iPc,
                   iCur, iTrace, iSlept, iUp, iOut, turns, speech, speaking,
                   recorded>>

\* the caller has spoken: context_aggregator.user() pushes the context
\* frame downstream, to the injector
CallerTurn ==
    /\ connected
    /\ turns < MaxTurns
    /\ turns' = turns + 1
    /\ iQueue' = Append(iQueue, Frame("OpenAILLMContextFrame", "DOWNSTREAM"))
    /\ iCount' = iCount + 1
    /\ UNCHANGED <<busy, latency_seconds, strategy, choices, cycle_pos, iPc,
                   iCur, iTrace, iSlept, iUp, iOut, connected, speech,
                   speaking, recorded>>

\* the injector works on its queue; what it pushes downstream reaches the
\* language model and the speech synthesis
PipeInjStep ==
    \/ /\ InjPush
       /\ speech' = speech \o Utterance(Frame(iCur.kind, iCur.dir))
       /\ UNCHANGED <<connected, turns, speaking, recorded>>
    \/ /\ \/ InjBegin
          \/ InjSetBusy
          \/ InjPick
          \/ InjSleep
          \/ InjCheck
          \/ InjClearBusy
       /\ UNCHANGED pipeVars

\* the assistant starts to speak the next utterance; transport.output()
\* sends BotStartedSpeakingFrame upstream, through the injector
BotStartsSpeaking ==
    /\ speaking = "none"
    /\ speech # <<>>
    /\ speaking' = Head(speech)
    /\ speech' = Tail(speech)
    /\ iQueue' = Append(iQueue, Frame("OtherFrame", "UPSTREAM"))
    /\ iCount' = iCount + 1
    /\ UNCHANGED <<busy, latency_seconds, strategy, choices, cycle_pos, iPc,
                   iCur, iTrace, iSlept, iUp, iOut, connected, turns,
                   recorded>>

\* the assistant stops speaking; BotStoppedSpeakingFrame goes upstream
BotStopsSpeaking ==
    /\ speaking # "none"
    /\ speaking' = "none"
    /\ iQueue' = Append(iQueue, Frame("OtherFrame", "UPSTREAM"))
    /\ iCount' = iCount + 1
    /\ UNCHANGED <<busy, latency_seconds, strategy, choices, cycle_pos, iPc,
                   iCur, iTrace, iSlept, iUp, iOut, connected, turns, speech,
                   recorded>>

\* should_mute_callback of build_stt_mute:
\*   return flt._bot_is_speaking or latency_injector.busy
ShouldMute_BothFlags(bot, b) == bot /\ b

ShouldMute(bot, b) == bot \/ b

\* STTMuteFilter._bot_is_speaking, which the filter sets on
\* BotStartedSpeakingFrame and clears on BotStoppedSpeakingFrame
BotIsSpeaking == speaking # "none"

\* the STTMuteFilter asks should_mute_callback(flt)
MuteQuery ==
    /\ mute_reply' = [asked |-> TRUE, bot |-> BotIsSpeaking, busy |-> busy,
                      reply |-> ShouldMute(BotIsSpeaking, busy)]
    /\ UNCHANGED <<injVars, pipeVars>>

\* build_pipeline up to LatencyInjector(strategy=settings.latency.strategy)
InitPipe ==
    /\ AuxIdle
    /\ PoolIdle
    /\ GateInit
    /\ InjInit
    /\ strategy \in {"random", "round_robin"}
    /\ choices = LATENCY_CHOICES
    /\ cycle_pos \in 0..(Len(LATENCY_CHOICES) - 1)
    /\ connected = FALSE
    /\ recorded = NoLatency
    /\ turns = 0
    /\ speech = <<>>
    /\ speaking = "none"

NextPipe ==
    /\ \/ /\ \/ BuildPick
             \/ ClientConnected
             \/ CallerTurn
             \/ PipeInjStep
             \/ BotStartsSpeaking
             \/ BotStopsSpeaking
          /\ UNCHANGED queryVars
       \/ MuteQuery
    /\ UNCHANGED <<poolVars, gateVars, setupVars, cancelVars, serVars>>

SpecPipe == InitPipe /\ [][NextPipe]_vars

\* the pipeline task keeps processing queued frames, and the stages after
\* the injector keep speaking what they were given
PipeFairness ==
    /\ WF_vars(PipeInjStep /\ UNCHANGED <<poolVars, gateVars, auxVars>>)
    /\ WF_vars(BotStartsSpeaking /\ UNCHANGED <<poolVars, gateVars, auxVars>>)
    /\ WF_vars(BotStopsSpeaking /\ UNCHANGED <<poolVars, gateVars, auxVars>>)

SpecPipeFair == SpecPipe /\ PipeFairness

(***************************************************************************)
(* Call setup: build_pipeline run for several connections of one process   *)
(***************************************************************************)
injRest == <<busy, latency_seconds, strategy, choices, iQueue, iPc, iCur,
             iTrace, iSlept, iUp, iOut, iCount>>

\* await websocket.accept()
SetupAccept(c) ==
    /\ sPc[c] = "new"
    /\ sPc' = [sPc EXCEPT ![c] = "injector"]
    /\ UNCHANGED <<sLatency, sCall, sRaised, sOrd, sPos, sRecord, sTask,
                   draws, earlier, poolVars, cycle_pos>>

\* latency = LatencyInjector(strategy=settings.latency.strategy)
SetupInjector(c) ==
    /\ sPc[c] = "injector"
    /\ sLatency' = [sLatency EXCEPT ![c] = NoLatency]
    /\ sPc' = [sPc EXCEPT ![c] = "get_number"]
    /\ UNCHANGED <<sCall, sRaised, sOrd, sPos, sRecord, sTask, draws,
                   earlier, poolVars, cycle_pos>>

\* where build_pipeline goes on after get_number() has raised: nothing
\* around the call catches, the error leaves build_pipeline
AfterRaise_Swallowed == "pick"

AfterRaise == "failed"

\* call_id = CallNumberProvider().get_number(): the pool file exists, the
\* constructor writes nothing; get_number has no await, so on the event
\* loop it runs from load to save without another connection in between
SetupGetNumber(c) ==
    /\ sPc[c] = "get_number"
    /\ IsList(file)
    /\ IF file.data = <<>>
       THEN /\ sRaised' = [sRaised EXCEPT ![c] = TRUE]
            /\ raisedCount' = raisedCount + 1
            /\ sPc' = [sPc EXCEPT ![c] = AfterRaise]
            /\ UNCHANGED <<file, issuedCount, emptied, sCall>>
       ELSE /\ \E n \in Elems(file.data) :
                  /\ file' = ListFile(Removed(file.data, n))
                  /\ issuedCount' = [issuedCount EXCEPT ![n] = @ + 1]
                  /\ sCall' = [sCall EXCEPT ![c] = n]
            /\ emptied' = (emptied \/ Len(file.data) = 1)
            /\ sPc' = [sPc EXCEPT ![c] = "pick"]
            /\ UNCHANGED <<raisedCount, sRaised>>
    /\ UNCHANGED <<mode, lock, pc, pool, number, calls, decodeErrors,
                   sLatency, sOrd, sPos, sRecord, sTask, draws, earlier,
                   cycle_pos>>

\* chosen_latency = await latency._pick_latency(), on the connection's own
\* injector; next(_latency_cycle) is one step of the shared iterator
SetupPick(c) ==
    /\ sPc[c] = "pick"
    /\ IF NeedsPick(sLatency[c])
       THEN IF strategy = "random"
            THEN /\ \E i \in 1..Len(choices) :
                       sLatency' = [sLatency EXCEPT ![c] = choices[i]]
                 /\ UNCHANGED <<cycle_pos, draws, sOrd, sPos>>
            ELSE /\ sLatency' = [sLatency EXCEPT ![c] = CycleValue(cycle_pos)]
                 /\ cycle_pos' = CycleAdvance(cycle_pos)
                 /\ sPos' = [sPos EXCEPT ![c] = cycle_pos]
                 /\ sOrd' = [sOrd EXCEPT ![c] = draws]
                 /\ draws' = draws + 1
       ELSE UNCHANGED <<sLatency, cycle_pos, draws, sOrd, sPos>>
    /\ sPc' = [sPc EXCEPT ![c] = "record"]
    /\ UNCHANGED <<sCall, sRaised, sRecord, sTask, earlier, poolVars>>

\* set_current_call_id(call_id); await write_initial_call(call_id=call_id,
\* choosen_latency=chosen_latency, ...)
SetupWriteRecord(c) ==
    /\ sPc[c] = "record"
    /\ sRecord' = [sRecord EXCEPT ![c] = [call_id |-> sCall[c],
                                          latency |-> sLatency[c]]]
    /\ sPc' = [sPc EXCEPT ![c] = "task"]
    /\ UNCHANGED <<sLatency, sCall, sRaised, sOrd, sPos, sTask, draws,
                   earlier, poolVars, cycle_pos>>

\* slots, services, context, Pipeline([...]), PipelineTask(...), handlers,
\* runner; build_pipeline returns its artifacts
SetupBuildTask(c) ==
    /\ sPc[c] = "task"
    /\ sTask' = [sTask EXCEPT ![c] = TRUE]
    /\ sPc' = [sPc EXCEPT ![c] = "built"]
    /\ UNCHANGED <<sLatency, sCall, sRaised, sOrd, sPos, sRecord, draws,
                   earlier, poolVars, cycle_pos>>

\* the ids still in the pool file when the process starts: any tail of the
\* range, the empty pool included
PoolLeft == {SubSeq(FullPool, k, PoolSize) : k \in 1..(PoolSize + 1)}

\* a process that has served up to MaxEarlier connections before
InitSetup ==
    /\ QueryIdle
    /\ CancelIdle
    /\ SerIdle
    /\ SetupInit
    /\ PoolInitCommon
    /\ GateInit
    /\ InjInit
    /\ mode = "percall"
    /\ file \in {ListFile(l) : l \in PoolLeft}
    /\ pc = [t \in Threads |-> "start"]
    /\ strategy = "round_robin"
    /\ choices = LATENCY_CHOICES
    /\ earlier \in 0..MaxEarlier
    /\ draws = earlier
    /\ cycle_pos = earlier % Len(LATENCY_CHOICES)
    /\ connected = FALSE
    /\ recorded = NoLatency
    /\ turns = 0
    /\ speech = <<>>
    /\ speaking = "none"

NextSetup ==
    /\ \E c \in Sessions :
          \/ SetupAccept(c)
          \/ SetupInjector(c)
          \/ SetupGetNumber(c)
          \/ SetupPick(c)
          \/ SetupWriteRecord(c)
          \/ SetupBuildTask(c)
    /\ UNCHANGED <<gateVars, injRest, pipeVars, queryVars, cancelVars,
                   serVars>>

SpecSetup == InitSetup /\ [][NextSetup]_vars

(***************************************************************************)
(* Disconnect, cancellation and the teardown of run_pipeline               *)
(***************************************************************************)
injOther == <<busy, latency_seconds, strategy, choices, iQueue, iCur, iTrace,
              iSlept, iUp, iOut, iCount>>

\* where process_frame stands once its task has been cancelled: nothing in
\* process_frame catches the CancelledError that the pending await raises,
\* so the statements after it are not run
AfterCancel_Shielded(p) == p

AfterCancel(p) == "cancelled"

\* task.cancel(): a running task is cancelled, and with it the tasks of its
\* processors, the injector's among them
TaskCancelled ==
    /\ task_state' = "cancelled"
    /\ cancelledAt' = iPc
    /\ iPc' = AfterCancel(iPc)

\* task.cancel() met a task that had finished or was cancelled already
TaskUntouched == UNCHANGED <<task_state, cancelledAt, iPc>>

\* the pipeline ends by itself once it has nothing left to do (EndFrame,
\* idle timeout); runner.run(task) returns
TaskCompletes ==
    /\ task_state = "running"
    /\ iPc = "idle"
    /\ iQueue = <<>>
    /\ speech = <<>>
    /\ speaking = "none"
    /\ task_state' = "finished"
    /\ UNCHANGED <<has_is_cancelled, runPc, discPc, cancelCalls, absorbed,
                   escaped, cancelledAt, injVars, pipeVars>>

\* on_client_disconnected: await task.cancel(), with nothing around it
ClientDisconnected ==
    /\ connected
    /\ discPc = "idle"
    /\ discPc' = "done"
    /\ cancelCalls' = Append(cancelCalls, [by |-> "on_client_disconnected",
                                           met |-> task_state])
    /\ IF task_state = "running"
       THEN /\ TaskCancelled
            /\ UNCHANGED escaped
       ELSE /\ TaskUntouched
            /\ \/ UNCHANGED escaped
               \/ escaped' = escaped \union {"on_client_disconnected"}
    /\ UNCHANGED <<has_is_cancelled, runPc, absorbed, injOther, cycle_pos,
                   pipeVars>>

\* is_cancelled() of the task
IsCancelled == task_state = "cancelled"

\* the finally block of run_pipeline
TeardownCancels_Always == TRUE

TeardownCancels == has_is_cancelled /\ ~IsCancelled

\* except Exception: pass around the teardown's cancel
TeardownEscapes_NoExcept(e) == e \union {"run_pipeline"}

TeardownEscapes(e) == e

\* run_pipeline: runner.run(task) has returned; the finally block
RunTeardown ==
    /\ runPc = "run"
    /\ task_state # "running"
    /\ runPc' = "done"
    /\ IF TeardownCancels
       THEN /\ cancelCalls' = Append(cancelCalls, [by |-> "run_pipeline",
                                                   met |-> task_state])
            /\ \/ UNCHANGED <<absorbed, escaped>>
               \/ /\ absorbed' = absorbed + 1
                  /\ escaped' = TeardownEscapes(escaped)
       ELSE UNCHANGED <<cancelCalls, absorbed, escaped>>
    /\ TaskUntouched
    /\ UNCHANGED <<has_is_cancelled, discPc, injOther, cycle_pos, pipeVars>>

\* one session from build_pipeline's pick to the end of run_pipeline
InitCancel ==
    /\ QueryIdle
    /\ SetupIdle
    /\ SerIdle
    /\ CancelInit
    /\ has_is_cancelled \in BOOLEAN
    /\ PoolIdle
    /\ GateInit
    /\ InjInit
    /\ strategy = "round_robin"
    /\ choices = LATENCY_CHOICES
    /\ cycle_pos \in 0..(Len(LATENCY_CHOICES) - 1)
    /\ connected = FALSE
    /\ recorded = NoLatency
    /\ turns = 0
    /\ speech = <<>>
    /\ speaking = "none"

NextCancel ==
    /\ \/ /\ task_state = "running"
          /\ \/ BuildPick
             \/ ClientConnected
             \/ CallerTurn
             \/ BotStartsSpeaking
             \/ BotStopsSpeaking
          /\ UNCHANGED cancelVars
       \/ PipeInjStep /\ UNCHANGED cancelVars
       \/ TaskCompletes
       \/ ClientDisconnected
       \/ RunTeardown
    /\ UNCHANGED <<poolVars, gateVars, queryVars, setupVars, serVars>>

SpecCancel == InitCancel /\ [][NextCancel]_vars

(***************************************************************************)
(* The wire serializer: ACSFrameSerializer                                 *)
(***************************************************************************)
\* isinstance(frame, (EndFrame, CancelFrame, StartInterruptionFrame))
IsStopFrame_WithStart(k) ==
    k \in {"EndFrame", "CancelFrame", "StartInterruptionFrame", "StartFrame"}

IsStopFrame(k) == k \in {"EndFrame", "CancelFrame", "StartInterruptionFrame"}

\* isinstance(frame, AudioRawFrame): the class and its subclasses
IsAudioFrame(k) ==
    k \in {"AudioRawFrame", "InputAudioRawFrame", "OutputAudioRawFrame"}

\* isinstance(frame, (TransportMessageFrame, TransportMessageUrgentFrame))
IsMessageFrame(k) ==
    k \in {"TransportMessageFrame", "TransportMessageUrgentFrame"}

FrameKinds == {"EndFrame", "CancelFrame", "StartInterruptionFrame",
               "AudioRawFrame", "InputAudioRawFrame", "OutputAudioRawFrame",
               "TransportMessageFrame", "TransportMessageUrgentFrame",
               "StartFrame", "TextFrame"}

\* the frames handed to serialize: audio of 0..MaxPcmBytes bytes with a
\* declared rate or none, messages with some content, frames without data
SerFrames ==
    {[kind |-> k, len |-> n, rate |-> r, channels |-> 1, msg |-> "-"] :
        k \in {j \in FrameKinds : IsAudioFrame(j)}, n \in 0..MaxPcmBytes,
        r \in Rates}
    \union
    {[kind |-> k, len |-> 0, rate |-> 0, channels |-> 0, msg |-> t] :
        k \in {j \in FrameKinds : IsMessageFrame(j)},
        t \in {"hangup", "custom"}}
    \union
    {[kind |-> k, len |-> 0, rate |-> 0, channels |-> 0, msg |-> "-"] :
        k \in {j \in FrameKinds : ~IsAudioFrame(j) /\ ~IsMessageFrame(j)}}

\* Python's "a or b" on rates: 0 and None are false
OrRate(a, b) == IF a # 0 THEN a ELSE b

RECURSIVE Gcd(_, _)
Gcd(a, b) == IF b = 0 THEN a ELSE Gcd(b, a % b)

\* audioop.ratecv with no state: the number of frames it writes for n
\* input frames, inrate and outrate already divided by their gcd
RECURSIVE RateCvLoop(_, _, _, _, _)
RateCvLoop(n, d, written, inrate, outrate) ==
    IF d < 0
    THEN IF n = 0 THEN written
         ELSE RateCvLoop(n - 1, d + outrate, written, inrate, outrate)
    ELSE RateCvLoop(n, d - inrate, written + 1, inrate, outrate)

\* length in bytes of audioop.ratecv(pcm, 2, 1, inrate, outrate, None)[0]
RateCv_Unscaled(len, inrate, outrate) == len

RateCv(len, inrate, outrate) ==
    LET g == Gcd(inrate, outrate) IN
        2 * RateCvLoop(len \div 2, 0 - (outrate \div g), 0, inrate \div g,
                       outrate \div g)

\* audioop.ratecv raises audioop.error: not a whole number of frames
RateCvRaises(len) == len % 2 # 0

Raised(e) == [NoOutput EXCEPT !.out = "raise", !.exc = e]

\* the JSON text of an envelope
Envelope(k, n, r) == [NoOutput EXCEPT !.out = "text", !.kind = k, !.len = n,
                                      !.rate = r]

\* what serialize returns for an end, cancel or interruption frame
StopOutput_Always(auto) == Envelope("stopAudio", 0, 0)

StopOutput(auto) == IF auto THEN Envelope("stopAudio", 0, 0) ELSE NoOutput

\* serialize: "if sr != 16_000"
NeedsResample_Never(sr) == FALSE

NeedsResample(sr) == sr # WIRE_RATE

\* serialize(frame)
Serialize(f) ==
    IF IsStopFrame(f.kind)
    THEN StopOutput(auto_stop_audio)
    ELSE IF IsAudioFrame(f.kind)
    THEN LET sr == OrRate(f.rate, sample_rate) IN
         IF NeedsResample(sr)
         THEN IF RateCvRaises(f.len) THEN Raised("audioop.error")
              ELSE Envelope("audioData", RateCv(f.len, sr, WIRE_RATE),
                            WIRE_RATE)
         ELSE Envelope("audioData", f.len, sr)
    ELSE IF IsMessageFrame(f.kind)
    THEN Envelope(f.msg, 0, 0)
    ELSE NoOutput

\* the texts handed to deserialize, by what json.loads makes of them
JsonTypes == {"invalid", "array", "number", "string", "null", "object"}

\* values found under "kind" and "Kind" ("absent": no such key)
KindValues == {"absent", "audioData", "AudioData", "stopAudio"}

\* the objects: "kind"/"Kind", the payload under "audioData" or
\* "AudioData" (a dict, or a string where a dict should be), in it "data"
\* or "Data" with text that decodes to len bytes ("valid"), that has
\* characters outside the alphabet only ("foreign"), a wrong padding
\* ("badpadding") or nothing ("empty"), and "sampleRate"
WireObjects ==
    [json : {"object"}, kind : KindValues, Kind : {"absent", "AudioData"},
     payloadKey : {"absent", "audioData", "AudioData"},
     payload : {"dict", "string"},
     dataKey : {"absent", "data", "Data"},
     b64 : {"valid", "foreign", "badpadding", "empty"},
     len : 1..MaxPcmBytes, rate : {0, 8, 16}]

WireMessages ==
    {[NoMsg EXCEPT !.json = j] : j \in JsonTypes \ {"object"}}
    \union WireObjects

\* Python's "a or b" on the values of two keys
OrKey(a, b) == IF a # "absent" THEN a ELSE b

\* the kind that deserialize accepts
AcceptedKind == "AudioData"

\* base64.b64decode(b64): bytes decoded; characters outside the alphabet
\* are discarded
Decoded(m) == IF m.b64 = "valid" THEN m.len ELSE 0

\* the frame deserialize builds
InboundFrame_WireRate(n) == [NoOutput EXCEPT !.out = "frame",
                                             !.kind = "InputAudioRawFrame",
                                             !.len = n, !.rate = WIRE_RATE,
                                             !.channels = 1]

InboundFrame(n) == [NoOutput EXCEPT !.out = "frame",
                                    !.kind = "InputAudioRawFrame",
                                    !.len = n, !.rate = sample_rate,
                                    !.channels = 1]

\* deserialize(data)
Deserialize(m) ==
    IF m.json = "invalid" THEN NoOutput
    ELSE IF m.json # "object" THEN Raised("AttributeError")
    ELSE IF OrKey(m.kind, m.Kind) # AcceptedKind THEN NoOutput
    ELSE IF m.payloadKey = "absent" THEN NoOutput
    ELSE IF m.payload # "dict" THEN Raised("AttributeError")
    ELSE IF m.dataKey = "absent" \/ m.b64 = "empty" THEN NoOutput
    ELSE IF m.b64 = "badpadding" THEN Raised("binascii.Error")
    ELSE LET sr == OrRate(m.rate, WIRE_RATE) IN
         IF sr # sample_rate
         THEN IF RateCvRaises(Decoded(m)) THEN Raised("audioop.error")
              ELSE InboundFrame(RateCv(Decoded(m), sr, sample_rate))
         ELSE InboundFrame(Decoded(m))

\* setup(frame): the StartFrame's audio_in_sample_rate, if it has one
SerSetup(r) ==
    /\ sample_rate' = OrRate(r, sample_rate)
    /\ negotiated' = OrRate(r, negotiated)
    /\ serOp' = "setup"
    /\ serIn' = NoInput
    /\ serOut' = NoOutput
    /\ UNCHANGED auto_stop_audio

SerSerialize(f) ==
    /\ serOp' = "serialize"
    /\ serIn' = [frame |-> f, msg |-> NoMsg]
    /\ serOut' = Serialize(f)
    /\ UNCHANGED <<sample_rate, negotiated, auto_stop_audio>>

SerDeserialize(m) ==
    /\ serOp' = "deserialize"
    /\ serIn' = [frame |-> NoFrame, msg |-> m]
    /\ serOut' = Deserialize(m)
    /\ UNCHANGED <<sample_rate, negotiated, auto_stop_audio>>

\* the transport has taken the result of the call; the serializer keeps
\* nothing of a call but its working rate
SerReturn ==
    /\ serOp # "none"
    /\ serOp' = "none"
    /\ serIn' = NoInput
    /\ serOut' = NoOutput
    /\ UNCHANGED <<sample_rate, negotiated, auto_stop_audio>>

InitSer ==
    /\ QueryIdle
    /\ SetupIdle
    /\ CancelIdle
    /\ PoolIdle
    /\ GateInit
    /\ InjIdle
    /\ SerInit
    /\ auto_stop_audio \in BOOLEAN

NextSer ==
    /\ \/ /\ serOp = "none"
          /\ \/ \E r \in Rates : SerSetup(r)
             \/ \E f \in SerFrames : SerSerialize(f)
             \/ \E m \in WireMessages : SerDeserialize(m)
       \/ SerReturn
    /\ UNCHANGED <<poolVars, gateVars, injVars, pipeVars, queryVars,
                   setupVars, cancelVars>>

SpecSer == InitSer /\ [][NextSer]_vars

(***************************************************************************)
(* Properties of the call-number pool                                      *)
(***************************************************************************)
RECURSIVE SumOver(_, _)
SumOver(f, S) ==
    IF S = {} THEN 0
    ELSE LET x == CHOOSE y \in S : TRUE IN f[x] + SumOver(f, S \ {x})

\* number of ids returned so far
TotalIssued == SumOver(issuedCount, IdSpace)

\* the set of ids returned so far
Issued == {i \in IdSpace : issuedCount[i] > 0}

\* no get_number() call and no constructor is running
Quiescent == \A t \in Threads : pc[t] \in {"start", "ready"}

NoIdTwice == \A i \in IdSpace : issuedCount[i] <= 1

\* C1: k <= pool_size get_number() calls issued concurrently on one provider
\* return pairwise distinct ids of the configured range, and when they have
\* returned the persisted pool holds exactly pool_size - k entries
C1_DistinctInRange ==
    /\ NoIdTwice
    /\ Issued \subseteq Ids
    /\ Quiescent => (IsList(file) /\ Len(file.data) = PoolSize - TotalIssued)

\* three concurrent callers have each been given an id: a permutation of the
\* range, the pool is empty
C1_Witness ==
    /\ mode = "shared"
    /\ Quiescent
    /\ \A t \in Threads : calls[t] = 1
    /\ Issued = Ids
    /\ file = ListFile(<<>>)

\* thread t is inside its load-modify-save cycle and the file is no longer
\* what t loaded: another invocation's file access fell inside t's cycle
Interleaved(t) == pc[t] = "pick" /\ file # ListFile(pool[t])

\* C2: the load-modify-save cycles of two get_number() invocations on the
\* same pool file never interleave, also through different provider
\* instances, and so two call setups never receive the same id
C2_CyclesSerialized ==
    /\ \A t \in Threads : ~Interleaved(t)
    /\ NoIdTwice

\* C3: whenever no call is running, the persisted pool and the ids issued
\* so far are disjoint and together are the configured range, and no id
\* has been returned twice
C3_PoolPlusIssuedIsRange ==
    Quiescent =>
        /\ IsList(file)
        /\ Elems(file.data) \cap Issued = {}
        /\ Elems(file.data) \cup Issued = Ids
        /\ TotalIssued = Cardinality(Issued)

\* C4: pool exhaustion is absorbing: once the persisted pool has been the
\* empty list it never holds an id again, whatever calls follow on whatever
\* provider
C4_ExhaustionAbsorbing == emptied => file.data = <<>>

(***************************************************************************)
(* Properties of the turn gate                                             *)
(***************************************************************************)
Last(q) == q[Len(q)]

\* entries a..b of the gate's history are all audio frames
AllAudio(a, b) == \A n \in a..b : IsAudio(gLog[n].kind)

\* the history starts with caller-started, caller-stopped on the new gate
ScenarioStart ==
    /\ Len(gLog) >= 2
    /\ gLog[1].kind = "UserStartedSpeakingFrame"
    /\ gLog[2].kind = "UserStoppedSpeakingFrame"

\* C5: with the gate enabled an audio frame is dropped exactly when the gate
\* is gated when the frame is processed; after [caller-started,
\* caller-stopped] the audio frames that follow are all dropped and counted,
\* and the audio frames after the next assistant-stopped are forwarded
C5_AudioDroppedIffGated ==
    /\ \A i \in 1..Len(gLog) :
          (gLog[i].en /\ IsAudio(gLog[i].kind)) =>
              (gLog[i].fwd <=> ~gLog[i].muted)
    /\ ScenarioStart =>
          /\ \A i \in 3..Len(gLog) : AllAudio(3, i) => ~gLog[i].fwd
          /\ AllAudio(3, Len(gLog)) => dropped = Len(gLog) - 2
          /\ \A j \in 3..Len(gLog) : \A i \in (j + 1)..Len(gLog) :
                (/\ AllAudio(3, j - 1)
                 /\ gLog[j].kind = "BotStoppedSpeakingFrame"
                 /\ AllAudio(j + 1, i)) => gLog[i].fwd

\* [caller-started, caller-stopped, audio, assistant-stopped, audio]: the
\* first audio frame was dropped and counted, the second forwarded
C5_Witness ==
    /\ ScenarioStart
    /\ Len(gLog) = 5
    /\ gLog[3].kind = "UserAudioRawFrame" /\ ~gLog[3].fwd
    /\ gLog[4].kind = "BotStoppedSpeakingFrame" /\ gLog[4].fwd
    /\ gLog[5].kind = "InputAudioRawFrame" /\ gLog[5].fwd
    /\ dropped = 1

\* C6: the gate leaves the gated state only by processing an
\* assistant-stopped-speaking frame or by enable()/disable()
C6_UngateOnlyOnBotStopped ==
    [][(mute /\ ~mute') =>
          Last(gLog').kind \in {"BotStoppedSpeakingFrame", "enable", "disable"}]_vars

\* gated, assistant-started processed and still gated, assistant-stopped
\* processed and un-gated
C6_Witness ==
    /\ Len(gLog) = 4
    /\ gLog[3].kind = "BotStartedSpeakingFrame" /\ gLog[3].muted
    /\ gLog[4].kind = "BotStoppedSpeakingFrame" /\ gLog[4].muted
    /\ ~mute

\* a caller-stopped frame is processed by the enabled gate while not armed
UnarmedStop ==
    /\ Len(gLog') = Len(gLog) + 1
    /\ Last(gLog').kind = "UserStoppedSpeakingFrame"
    /\ enabled
    /\ ~saw_user_since_enable

\* C7: a caller-stopped frame processed while not armed changes nothing:
\* muted is and stays false, the counter and armed are unchanged, and the
\* audio frames that follow it are forwarded
C7_UnarmedStopIsNoOp ==
    /\ [][UnarmedStop =>
            (~mute /\ ~mute' /\ dropped' = dropped
             /\ ~saw_user_since_enable' /\ Last(gLog').fwd)]_vars
    /\ [](\A i \in 1..Len(gLog) :
            (/\ gLog[i].kind = "UserStoppedSpeakingFrame"
             /\ gLog[i].en
             /\ ~gLog[i].armed) =>
                \A j \in (i + 1)..Len(gLog) :
                    (AllAudio(i + 1, j) /\ gLog[j].en) => gLog[j].fwd)

\* a complete turn, then a late caller-stopped with no caller-started before
\* it, then an audio frame that is forwarded
C7_Witness ==
    /\ ScenarioStart
    /\ Len(gLog) = 5
    /\ gLog[3].kind = "BotStoppedSpeakingFrame"
    /\ gLog[4].kind = "UserStoppedSpeakingFrame" /\ ~gLog[4].armed
    /\ gLog[5].kind = "InputAudioRawFrame" /\ gLog[5].fwd
    /\ ~mute

(***************************************************************************)
(* Properties of the latency injector                                      *)
(***************************************************************************)
IsPrefix(a, b) == Len(a) <= Len(b) /\ \A n \in 1..Len(a) : a[n] = b[n]

Has(q, x) == \E n \in 1..Len(q) : q[n] = x

\* the frame in process_frame is a downstream context frame
CurIsContext ==
    /\ iCur.kind \in {"OpenAILLMContextFrame", "LLMMessagesFrame"}
    /\ iCur.dir = "DOWNSTREAM"

\* the frame in process_frame is a downstream TTSSpeakFrame
CurIsSpeak == iCur.kind = "TTSSpeakFrame" /\ iCur.dir = "DOWNSTREAM"

HoldOrder == <<"mute", "busy_on", "pick", "sleep", "push">>

\* C8: for a downstream context frame the injector pushes the mute signal
\* upstream, sets busy, waits the picked delay and only then pushes the
\* frame on; it pushes no unmute signal and busy is still true afterwards
C8_HoldOrder ==
    CurIsContext =>
        /\ IsPrefix(iTrace, HoldOrder)
        /\ iPc = "idle" =>
              (iTrace = HoldOrder /\ Last(iOut) = Frame(iCur.kind, iCur.dir))
        /\ Has(iTrace, "busy_on") => busy
        /\ Has(iTrace, "sleep") =>
              (iSlept = latency_seconds /\ latency_seconds # NoLatency)

\* an LLMMessagesFrame has been held for the picked delay and pushed on
C8_Witness ==
    /\ iPc = "idle"
    /\ iCur.kind = "LLMMessagesFrame" /\ iCur.dir = "DOWNSTREAM"
    /\ iTrace = HoldOrder
    /\ iSlept = 30
    /\ busy
    /\ iUp = <<TRUE>>

UnmuteOrder == <<"unmute", "busy_off", "push">>

\* C9: busy falls only while a downstream TTSSpeakFrame is processed; such
\* a frame met with busy true gets one unmute signal, then busy is cleared,
\* then the frame is pushed on; met with busy false it is pushed on with no
\* signal and no change of busy or the delay
C9_BusyUntilSpeak ==
    /\ [][(busy /\ ~busy') => (CurIsSpeak /\ iCur.busy0 /\ iPc = "clear_busy")]_vars
    /\ [][(CurIsSpeak' /\ ~iCur'.busy0 /\ iPc' # iPc) =>
             UNCHANGED <<busy, latency_seconds, cycle_pos, iUp>>]_vars
    /\ [](CurIsSpeak =>
            IF iCur.busy0
            THEN /\ IsPrefix(iTrace, UnmuteOrder)
                 /\ iPc = "idle" => (iTrace = UnmuteOrder /\ ~busy)
            ELSE /\ IsPrefix(iTrace, <<"push">>)
                 /\ ~busy)

\* a held context frame, then a TTSSpeakFrame that found busy true: one mute
\* and one unmute signal have gone upstream and busy is false
C9_Witness ==
    /\ iPc = "idle"
    /\ CurIsSpeak
    /\ iCur.busy0
    /\ iTrace = UnmuteOrder
    /\ iUp = <<TRUE, FALSE>>
    /\ ~busy

(***************************************************************************)
(* Properties of the assembled pipeline                                    *)
(***************************************************************************)
\* C10: in the assembled pipeline, once the assistant speaks its response
\* to a caller turn, busy eventually becomes false
C10_BusyClearsOnResponse == (speaking = "response") ~> ~busy

\* every frame queued at connection has passed the injector
GreetingPassed ==
    /\ connected
    /\ \A n \in 1..Len(iQueue) : iQueue[n].kind # "TTSSpeakFrame"
    /\ ~(iPc # "idle" /\ iCur.kind = "TTSSpeakFrame")

\* once the greeting has passed the injector, nothing clears busy again
BusyStaysAfterGreeting == [][(GreetingPassed /\ busy) => busy']_vars

\* C11: whenever the mute callback is asked, it answers true exactly when
\* the assistant-is-speaking flag or the injector's busy flag is true, and
\* false when both are false
C11_MuteIffSpeakingOrBusy ==
    mute_reply.asked =>
        /\ mute_reply.reply \in BOOLEAN
        /\ mute_reply.reply = TRUE <=> (mute_reply.bot \/ mute_reply.busy)
        /\ mute_reply.reply = FALSE <=> (~mute_reply.bot /\ ~mute_reply.busy)

\* the callback was asked while only the injector's flag was true, and
\* answered true
C11_Witness ==
    /\ mute_reply.asked
    /\ ~mute_reply.bot
    /\ mute_reply.busy
    /\ mute_reply.reply

(***************************************************************************)
(* Properties of the delay pick                                            *)
(***************************************************************************)
\* C12: once an injector has picked its delay, no later pick and no
\* processed frame changes latency_seconds, and a later pick takes nothing
\* from the round-robin cycle: every later call returns the first value
C12_PickIdempotent ==
    [][latency_seconds # NoLatency =>
          /\ latency_seconds' = latency_seconds
          /\ cycle_pos' = cycle_pos]_vars

\* a second triggering frame has gone through _pick_latency(): busy was
\* still set by an earlier hold, whose pick had chosen the delay
C12_Witness ==
    /\ iPc = "sleep"
    /\ Last(iTrace) = "pick"
    /\ iCur.busy0
    /\ latency_seconds # NoLatency

(***************************************************************************)
(* Properties of call setup                                                *)
(***************************************************************************)
\* connections whose setup has taken a value from the round-robin cycle
Drew == {c \in Sessions : sOrd[c] # NoLatency}

\* C13: under round_robin the connection that is the i-th of the process
\* to pick (counting from 0) gets candidate number i mod n of the
\* configured list: 3.0, 7.0, 0.1, 3.0, ...
C13_RoundRobinOrder ==
    \A c \in Drew :
        sLatency[c] = LATENCY_CHOICES[(sOrd[c] % Len(LATENCY_CHOICES)) + 1]

\* a connection was the fourth of the process to pick and got the first
\* candidate again, the one before it got the last
C13_Witness ==
    \E c, d \in Drew :
        /\ sOrd[c] = Len(LATENCY_CHOICES)
        /\ sLatency[c] = LATENCY_CHOICES[1]
        /\ sOrd[d] = Len(LATENCY_CHOICES) - 1
        /\ sLatency[d] = LATENCY_CHOICES[Len(LATENCY_CHOICES)]

\* C14: however the setups of several connections interleave, each pick
\* takes exactly one position of the shared cycle: the picks of the process
\* are numbered without gap or repetition, every pick reads the position
\* its number stands for, and the cycle stands right behind the last pick
C14_OnePositionPerPick ==
    /\ \A c, d \in Drew : c # d => sOrd[c] # sOrd[d]
    /\ {sOrd[c] : c \in Drew} = earlier..(draws - 1)
    /\ \A c \in Drew : sPos[c] = sOrd[c] % Len(LATENCY_CHOICES)
    /\ cycle_pos = draws % Len(LATENCY_CHOICES)

\* all connections have picked, and one that was accepted later picked
\* before one that was accepted earlier
C14_Witness ==
    /\ Drew = Sessions
    /\ \E c, d \in Sessions : c < d /\ sOrd[d] < sOrd[c]

\* C17: a connection for which get_number() raised has no session: it has
\* no call id, its injector has picked no delay and took nothing from the
\* cycle, no call record was written and no pipeline or task was built
C17_NoIdNoSession ==
    \A c \in Sessions :
        sRaised[c] =>
            /\ sPc[c] = "failed"
            /\ sCall[c] = 0
            /\ sLatency[c] = NoLatency
            /\ sOrd[c] = NoLatency
            /\ sRecord[c] = NoRecord
            /\ ~sTask[c]
            /\ draws = earlier + Cardinality(Drew \ {c})

\* the pool ran out under one connection while another one got the last
\* id and its session was built
C17_Witness ==
    \E c, d \in Sessions :
        /\ sRaised[c]
        /\ sPc[c] = "failed"
        /\ sTask[d]
        /\ sCall[d] # 0
        /\ sRecord[d].call_id = sCall[d]

(***************************************************************************)
(* Properties of cancellation                                              *)
(***************************************************************************)
\* C15: when the session is cancelled while the injector is in its delay,
\* from then on the injector forwards nothing (the held frame included),
\* sends no mute or unmute, runs no further statement of process_frame,
\* and nothing of the session changes the pool file, the round-robin
\* cycle or the speech of the assistant
C15_CancelAbandonsDelay ==
    [][(task_state = "cancelled" /\ cancelledAt = "sleep") =>
          /\ iOut' = iOut
          /\ iUp' = iUp
          /\ iTrace' = iTrace
          /\ iPc' = iPc
          /\ iSlept' = iSlept
          /\ busy' = busy
          /\ file' = file
          /\ cycle_pos' = cycle_pos
          /\ speech' = speech
          /\ speaking' = speaking]_vars

\* the client hung up during the delay for a context frame, and
\* run_pipeline has ended: the frame was never forwarded
C15_Witness ==
    /\ task_state = "cancelled"
    /\ cancelledAt = "sleep"
    /\ runPc = "done"
    /\ iCur.kind = "OpenAILLMContextFrame"
    /\ iTrace = <<"mute", "busy_on", "pick">>
    /\ iUp = <<TRUE>>
    /\ \A n \in 1..Len(iOut) : iOut[n].kind # "OpenAILLMContextFrame"

TeardownIsGuarded ==
    /\ "run_pipeline" \notin escaped
    /\ \A n \in 1..Len(cancelCalls) :
          cancelCalls[n].by = "run_pipeline" =>
              cancelCalls[n].met # "cancelled"

\* both have cancelled, the teardown first, and the teardown caught an error
TeardownThenDisconnect ==
    /\ Len(cancelCalls) = 2
    /\ cancelCalls[1].by = "run_pipeline"
    /\ cancelCalls[2].by = "on_client_disconnected"

(***************************************************************************)
(* Properties of the wire serializer                                       *)
(***************************************************************************)
\* an inbound message as the wire format describes it:
\* {"kind":"audioData","audioData":{"data": <base64 PCM>, "sampleRate": n}}
\* with whole 16-bit samples
WellFormedAudio(m) ==
    /\ m.json = "object"
    /\ m.kind = "audioData"
    /\ m.Kind = "absent"
    /\ m.payloadKey = "audioData"
    /\ m.payload = "dict"
    /\ m.dataKey = "data"
    /\ m.b64 = "valid"
    /\ m.len % 2 = 0
    /\ m.rate # 0

\* the kind of an object, read as deserialize reads it
KindOf(m) == IF m.kind # "absent" THEN m.kind ELSE m.Kind

\* C18: deserialize returns an inbound audio frame for a well-formed
\* message of kind "audioData" with non-empty base64 PCM, and none for a
\* message of any other kind
C18_AudioDataYieldsFrame ==
    serOp = "deserialize" =>
        /\ WellFormedAudio(serIn.msg) => serOut.out = "frame"
        /\ (serIn.msg.json = "object" /\ KindOf(serIn.msg) # "audioData")
               => serOut.out = "none"

\* the inputs C19 lists: unparseable text, JSON that is not an object, an
\* object with a missing or empty audio payload, a payload that is not
\* valid base64, PCM that is not a whole number of 16-bit samples
Malformed(m) ==
    \/ m.json # "object"
    \/ m.payloadKey = "absent"
    \/ m.payload # "dict"
    \/ m.dataKey = "absent"
    \/ m.b64 \in {"empty", "foreign", "badpadding"}
    \/ m.len % 2 # 0

\* C19: for every malformed input deserialize returns none, and no
\* exception leaves it
C19_MalformedYieldsNone ==
    (serOp = "deserialize" /\ Malformed(serIn.msg)) =>
        /\ serOut.out # "raise"
        /\ serOut.out = "none"

\* the malformed inputs that deserialize does turn into none: text that
\* does not parse, and objects it rejects before it decodes anything
RejectedEarly(m) ==
    \/ m.json = "invalid"
    \/ /\ m.json = "object"
       /\ \/ KindOf(m) # "AudioData"
          \/ m.payloadKey = "absent"
          \/ m.payload = "dict" /\ (m.dataKey = "absent" \/ m.b64 = "empty")

DropsWhatItRejects ==
    (serOp = "deserialize" /\ RejectedEarly(serIn.msg)) =>
        serOut.out = "none"

\* C20: serialize returns none for every frame that is neither an audio
\* frame nor an end, cancel or interruption frame, transport-message
\* frames included, and the only texts it produces are audioData and
\* stopAudio envelopes
C20_OnlyAudioAndStop ==
    serOp = "serialize" =>
        /\ serIn.frame.kind \notin
               {"AudioRawFrame", "InputAudioRawFrame", "OutputAudioRawFrame",
                "EndFrame", "CancelFrame", "StartInterruptionFrame"}
             => serOut.out = "none"
        /\ serOut.out = "text" => serOut.kind \in {"audioData", "stopAudio"}

\* C20 as amended: serialize returns none for every frame that is neither
\* an audio frame, nor an end, cancel or interruption frame, nor a
\* transport-message frame; a transport-message frame is written out as the
\* JSON text of its message, and every other text serialize produces is an
\* audioData or stopAudio envelope
C20_OthersDropped ==
    serOp = "serialize" =>
        /\ serIn.frame.kind \notin
               {"AudioRawFrame", "InputAudioRawFrame", "OutputAudioRawFrame",
                "EndFrame", "CancelFrame", "StartInterruptionFrame",
                "TransportMessageFrame", "TransportMessageUrgentFrame"}
             => serOut.out = "none"
        /\ serIn.frame.kind \in
               {"TransportMessageFrame", "TransportMessageUrgentFrame"}
             => (serOut.out = "text" /\ serOut.kind = serIn.frame.msg)
        /\ (serOut.out = "text" /\ serIn.frame.kind \notin
               {"TransportMessageFrame", "TransportMessageUrgentFrame"})
             => serOut.kind \in {"audioData", "stopAudio"}

\* serialize was handed a StartFrame while auto-stop is on, and returned
\* none
C20_Witness ==
    /\ serOp = "serialize"
    /\ serIn.frame.kind = "StartFrame"
    /\ auto_stop_audio
    /\ serOut.out = "none"

\* the rate serialize takes a frame to have: its declared rate, or the
\* negotiated rate when it declares none
EffectiveRate == IF serIn.frame.rate # 0 THEN serIn.frame.rate
                 ELSE IF negotiated # 0 THEN negotiated ELSE DEFAULT_RATE

\* C21: every audio envelope serialize produces has kind "audioData",
\* silent false and sampleRate 16000; the payload of a frame whose
\* effective rate is not 16000 is the frame's audio resampled to 16000,
\* the payload of a 16000 Hz frame is the frame's audio
C21_AudioEnvelopeAt16k ==
    (/\ serOp = "serialize"
     /\ serIn.frame.kind \in {"AudioRawFrame", "InputAudioRawFrame",
                               "OutputAudioRawFrame"}
     /\ serOut.out = "text") =>
        /\ serOut.kind = "audioData"
        /\ serOut.silent = FALSE
        /\ serOut.rate = WIRE_RATE
        /\ serOut.len = IF EffectiveRate = WIRE_RATE THEN serIn.frame.len
                         ELSE RateCv(serIn.frame.len, EffectiveRate, WIRE_RATE)

\* a frame that declares no rate was serialized after setup had
\* negotiated 8 kHz: its four bytes left as six, at 16 kHz
C21_Witness ==
    /\ serOp = "serialize"
    /\ serIn.frame.kind = "AudioRawFrame"
    /\ serIn.frame.rate = 0
    /\ serIn.frame.len = 4
    /\ negotiated = 8
    /\ serOut.out = "text"
    /\ serOut.rate = 16
    /\ serOut.len = 6

\* the serializer's working rate: what setup negotiated, if it was
\* non-zero, and the configured default otherwise
WorkingRate == IF negotiated # 0 THEN negotiated ELSE DEFAULT_RATE

\* the inbound rate a message advertises, 16000 when it gives none
AdvertisedRate == IF serIn.msg.rate # 0 THEN serIn.msg.rate ELSE WIRE_RATE

\* bytes of PCM in the message deserialize was given
PayloadBytes == IF serIn.msg.b64 = "valid" THEN serIn.msg.len ELSE 0

\* C22: every frame deserialize returns has one channel and the working
\* rate, and its audio is the payload resampled exactly when the advertised
\* rate differs from the working rate
C22_InboundAtWorkingRate ==
    (serOp = "deserialize" /\ serOut.out = "frame") =>
        /\ serOut.channels = 1
        /\ serOut.rate = WorkingRate
        /\ serOut.len = IF AdvertisedRate # WorkingRate
                         THEN RateCv(PayloadBytes, AdvertisedRate, WorkingRate)
                         ELSE PayloadBytes

\* setup negotiated 8 kHz and a message that advertises 16 kHz came in:
\* the frame carries 8 kHz and half the samples
C22_Witness ==
    /\ serOp = "deserialize"
    /\ negotiated = 8
    /\ serIn.msg.rate = 16
    /\ serIn.msg.len = 4
    /\ serOut.out = "frame"
    /\ serOut.rate = 8
    /\ serOut.len = 2

\* C23: serialize answers every end, cancel and interruption frame with
\* the stopAudio message when auto-stop is on and with none when it is
\* off, whatever was serialized or negotiated before
C23_StopFollowsAutoStop ==
    (/\ serOp = "serialize"
     /\ serIn.frame.kind \in {"EndFrame", "CancelFrame",
                               "StartInterruptionFrame"}) =>
        IF auto_stop_audio
        THEN serOut.out = "text" /\ serOut.kind = "stopAudio"
        ELSE serOut.out = "none"

\* with auto-stop off and another rate negotiated, a CancelFrame was
\* answered with none
C23_Witness ==
    /\ serOp = "serialize"
    /\ serIn.frame.kind = "CancelFrame"
    /\ ~auto_stop_audio
    /\ negotiated = 8
    /\ serOut.out = "none"

\* serialize or deserialize has just resampled a buffer
Resampled ==
    \/ /\ serOp = "serialize"
       /\ serIn.frame.kind \in {"AudioRawFrame", "InputAudioRawFrame",
                                 "OutputAudioRawFrame"}
       /\ serOut.out = "text"
       /\ EffectiveRate # WIRE_RATE
    \/ /\ serOp = "deserialize"
       /\ serOut.out = "frame"
       /\ AdvertisedRate # WorkingRate

SourceRate == IF serOp = "serialize" THEN EffectiveRate ELSE AdvertisedRate

TargetRate == IF serOp = "serialize" THEN WIRE_RATE ELSE WorkingRate

\* 16-bit samples that went into the resampling, and that came out
SamplesIn ==
    (IF serOp = "serialize" THEN serIn.frame.len ELSE PayloadBytes) \div 2

SamplesOut == serOut.len \div 2

Dist(a, b) == IF a > b THEN a - b ELSE b - a

\* C29 as stated: the resampled buffer is less than one whole sample away
\* from the input length times target_rate/source_rate, and a frame built
\* from it has one channel
C29_LengthWithinRounding ==
    Resampled =>
        /\ Dist(SamplesOut * SourceRate, SamplesIn * TargetRate) < SourceRate
        /\ serOut.out = "frame" => serOut.channels = 1

\* C29: the resampled buffer is less than max(1, target_rate/source_rate)
\* whole samples away from the input length times target_rate/source_rate,
\* and a frame built from it has one channel
C29_LengthWithinOneInputSample ==
    Resampled =>
        /\ Dist(SamplesOut * SourceRate, SamplesIn * TargetRate)
               < (IF SourceRate > TargetRate THEN SourceRate ELSE TargetRate)
        /\ serOut.out = "frame" => serOut.channels = 1

\* two samples advertised at 8 kHz came in at a working rate of 16 kHz and
\* left as three
C29_Witness ==
    /\ serOp = "deserialize"
    /\ serOut.out = "frame"
    /\ AdvertisedRate = 8
    /\ WorkingRate = 16
    /\ SamplesIn = 2
    /\ SamplesOut = 3

\* the log entries that are frames given to process_frame
IsFrameEntry(i) == gLog[i].kind \notin {"enable", "disable"}

\* C24: every frame that is not an InputAudioRawFrame or UserAudioRawFrame
\* is pushed on exactly once, in the direction it came with, in every gate
\* state; the pushed frames are a subsequence of the processed frames, in
\* the same order, none twice and none that was not received
C24_ControlFramesPassInOrder ==
    /\ \A j \in 1..Len(gOut) :
          /\ gOut[j].seq \in 1..Len(gLog)
          /\ IsFrameEntry(gOut[j].seq)
          /\ gLog[gOut[j].seq].kind = gOut[j].kind
    /\ \A i, j \in 1..Len(gOut) : i < j => gOut[i].seq < gOut[j].seq
    /\ \A i \in 1..Len(gLog) :
          (/\ IsFrameEntry(i)
           /\ gLog[i].kind \notin {"InputAudioRawFrame", "UserAudioRawFrame"})
              => Cardinality({j \in 1..Len(gOut) : gOut[j].seq = i}) = 1
    /\ (/\ Len(gLog) > 0
        /\ IsFrameEntry(Len(gLog))
        /\ Last(gLog).kind \notin {"InputAudioRawFrame", "UserAudioRawFrame"})
           => gDir.out = gDir.in

\* the caller-stopped frame that gated was pushed on, the audio frame after
\* it was not, and a frame of another kind going upstream passed the gated
\* gate upstream
C24_Witness ==
    /\ Len(gLog) = 4
    /\ gLog[2].kind = "UserStoppedSpeakingFrame" /\ gLog[2].armed
    /\ gLog[3].kind = "UserAudioRawFrame" /\ ~gLog[3].fwd
    /\ gLog[4].kind = "OtherFrame" /\ gLog[4].muted
    /\ gDir = [in |-> "UPSTREAM", out |-> "UPSTREAM"]
    /\ Len(gOut) = 3
    /\ gOut[2].seq = 2
    /\ gOut[3].seq = 4

\* C25: after disable() the gate has enabled false, and after enable()
\* enabled true, and after either muted false, armed false and a dropped
\* count of zero, whatever state the call met
C25_EnableDisableReset ==
    [][(/\ Len(gLog') = Len(gLog) + 1
        /\ Last(gLog').kind \in {"enable", "disable"}) =>
           /\ enabled' = (Last(gLog').kind = "enable")
           /\ mute' = FALSE
           /\ saw_user_since_enable' = FALSE
           /\ dropped' = 0]_vars

\* disable() met the gate gated, right after an audio frame was dropped
C25_Witness ==
    /\ Len(gLog) >= 4
    /\ Last(gLog).kind = "disable"
    /\ Last(gLog).muted /\ Last(gLog).armed
    /\ gLog[Len(gLog) - 1].kind = "InputAudioRawFrame"
    /\ ~gLog[Len(gLog) - 1].fwd
    /\ ~enabled /\ ~mute /\ ~saw_user_since_enable /\ dropped = 0

\* C26: a frame processed while the gate is disabled is pushed on, whatever
\* its kind, and leaves muted, armed and the dropped count as they were
C26_DisabledPassesAll ==
    [][(/\ ~enabled
        /\ Len(gLog') = Len(gLog) + 1
        /\ Last(gLog').kind \notin {"enable", "disable"}) =>
           /\ Last(gLog').fwd
           /\ Len(gOut') = Len(gOut) + 1
           /\ Last(gOut').seq = Len(gLog')
           /\ mute' = mute
           /\ saw_user_since_enable' = saw_user_since_enable
           /\ dropped' = dropped
           /\ enabled' = enabled]_vars

\* a caller-started and a caller-stopped frame went through the disabled
\* gate, the gate was enabled again, and the next caller-stopped frame met
\* it unarmed and did not gate
C26_Witness ==
    /\ Len(gLog) = 5
    /\ gLog[1].kind = "disable"
    /\ gLog[2].kind = "UserStartedSpeakingFrame" /\ gLog[2].fwd
    /\ gLog[3].kind = "UserStoppedSpeakingFrame" /\ gLog[3].fwd
    /\ gLog[4].kind = "enable" /\ ~gLog[4].armed /\ ~gLog[4].muted
    /\ gLog[5].kind = "UserStoppedSpeakingFrame" /\ ~gLog[5].armed
    /\ ~mute

\* the state of the reference machine: idle or gated, armed or not
RefInit == [gated |-> FALSE, armed |-> FALSE]

\* one step of the reference machine on a frame of kind k. It has three
\* transitions; with everywhere false the assistant-stopped one is taken
\* in gated only, with everywhere true it is taken in idle as well
RefStep(st, k, everywhere) ==
    IF k = "UserStartedSpeakingFrame" /\ ~st.gated
    THEN [st EXCEPT !.armed = TRUE]
    ELSE IF k = "UserStoppedSpeakingFrame" /\ ~st.gated /\ st.armed
    THEN [st EXCEPT !.gated = TRUE]
    ELSE IF k = "BotStoppedSpeakingFrame" /\ (st.gated \/ everywhere)
    THEN [gated |-> FALSE, armed |-> FALSE]
    ELSE st

\* the reference machine run over the first n frames the gate was given
RECURSIVE RefRun(_, _)
RefRun(n, everywhere) ==
    IF n = 0 THEN RefInit
    ELSE RefStep(RefRun(n - 1, everywhere), gLog[n].kind, everywhere)

\* the gate has been given frames only, and was enabled for each
EnabledRun ==
    \A i \in 1..Len(gLog) : IsFrameEntry(i) /\ gLog[i].en

\* C30 as stated: after every frame of a run with the gate enabled,
\* (muted, armed) equals (gated, armed) of the reference machine whose
\* assistant-stopped transition exists in gated only
C30_RefinesThreeTransitions ==
    EnabledRun =>
        LET ref == RefRun(Len(gLog), FALSE) IN
            /\ mute = ref.gated
            /\ saw_user_since_enable = ref.armed

\* C30: after every frame of a run with the gate enabled, (muted, armed)
\* equals (gated, armed) of the reference machine whose assistant-stopped
\* transition clears armed in idle as well as in gated
C30_RefinesWithResetInIdle ==
    EnabledRun =>
        LET ref == RefRun(Len(gLog), TRUE) IN
            /\ mute = ref.gated
            /\ saw_user_since_enable = ref.armed

\* an assistant-stopped frame met the idle, armed gate and disarmed it; the
\* caller-stopped frame after it did not gate; a later turn gated and was
\* released
C30_Witness ==
    /\ EnabledRun
    /\ Len(gLog) = 5
    /\ gLog[1].kind = "UserStartedSpeakingFrame"
    /\ gLog[2].kind = "BotStoppedSpeakingFrame"
    /\ gLog[2].armed /\ ~gLog[2].muted
    /\ gLog[3].kind = "UserStoppedSpeakingFrame" /\ ~gLog[3].armed
    /\ gLog[4].kind = "UserStartedSpeakingFrame" /\ ~gLog[4].muted
    /\ gLog[5].kind = "UserStoppedSpeakingFrame" /\ gLog[5].armed
    /\ mute /\ saw_user_since_enable

\* the strings of a pool file that holds the list l
PoolStrings(l) == [i \in 1..Len(l) |-> FormatId(l[i])]

\* C28: a constructor that found no pool file leaves the file holding the
\* three-character string of every integer from the first to the last of
\* the range, each once and nothing else; a constructor that found a file
\* leaves the file as it was
C28_CtorMaterializesRange ==
    [][\A t \in Threads :
          /\ (pc[t] = "ctor_dump" /\ pc'[t] = "ready") =>
                /\ file'.st = "list"
                /\ Len(file'.data) = RANGE_END - RANGE_START + 1
                /\ Elems(PoolStrings(file'.data)) =
                      {FormatId(i) : i \in RANGE_START..RANGE_END}
                /\ \A i \in 1..Len(file'.data) :
                      Len(PoolStrings(file'.data)[i]) = 3
          /\ (pc[t] = "start" /\ pc'[t] = "ctor_open") => file = NoFile
          /\ (pc[t] = "start" /\ pc'[t] = "ready") =>
                (file # NoFile /\ file' = file)]_vars

\* one constructor created the file, another found it there and left it;
\* nothing has been issued
C28_Witness ==
    /\ file.st = "list"
    /\ Len(file.data) = PoolSize
    /\ PoolStrings(file.data)[1] = <<5, 0, 1>>
    /\ PoolStrings(file.data)[2] = <<5, 0, 2>>
    /\ pc[1] = "ready" /\ pc[2] = "ready"
    /\ \A t \in Threads : calls[t] = 0

\* the operations that reset the gate: enable(), disable() and an
\* assistant-stopped frame (construction is the empty log)
IsResetEntry(i) ==
    gLog[i].kind \in {"enable", "disable", "BotStoppedSpeakingFrame"}

\* C31: armed is true exactly when a caller-started frame was processed
\* with the gate enabled and no enable(), disable() or assistant-stopped
\* frame has come after it
C31_ArmedIffStartedSinceReset ==
    saw_user_since_enable <=>
        \E i \in 1..Len(gLog) :
            /\ gLog[i].kind = "UserStartedSpeakingFrame"
            /\ gLog[i].en
            /\ \A j \in (i + 1)..Len(gLog) : ~IsResetEntry(j)

\* armed, disarmed by an assistant-stopped frame, armed again
C31_Witness ==
    /\ Len(gLog) = 4
    /\ gLog[1].kind = "UserStartedSpeakingFrame"
    /\ gLog[2].kind = "BotStoppedSpeakingFrame" /\ gLog[2].armed
    /\ gLog[3].kind = "UserStoppedSpeakingFrame" /\ ~gLog[3].armed
    /\ gLog[4].kind = "UserStartedSpeakingFrame" /\ ~gLog[4].armed
    /\ saw_user_since_enable

\* C33: whenever the gate is muted it is enabled and armed
C33_MutedImpliesEnabledArmed ==
    mute => (enabled /\ saw_user_since_enable)

\* the gate is gated and a caller-started and an assistant-started frame
\* have passed it since
C33_Witness ==
    /\ Len(gLog) = 4
    /\ gLog[2].kind = "UserStoppedSpeakingFrame" /\ gLog[2].armed
    /\ gLog[3].kind = "UserStartedSpeakingFrame" /\ gLog[3].muted
    /\ gLog[4].kind = "BotStartedSpeakingFrame" /\ gLog[4].muted
    /\ mute /\ enabled /\ saw_user_since_enable

\* the log entry at which the gate last went from idle to gated: a
\* caller-stopped frame that met the gate enabled, armed and not muted
LastGated ==
    LET S == {i \in 1..Len(gLog) :
                 /\ gLog[i].kind = "UserStoppedSpeakingFrame"
                 /\ gLog[i].en /\ gLog[i].armed /\ ~gLog[i].muted}
    IN  IF S = {} THEN 0 ELSE CHOOSE i \in S : \A j \in S : j <= i

\* audio frames not pushed on after log entry n
DroppedSince(n) ==
    Cardinality({i \in (n + 1)..Len(gLog) :
                    /\ gLog[i].kind \in {"InputAudioRawFrame",
                                          "UserAudioRawFrame"}
                    /\ ~gLog[i].fwd})

\* C34: while the gate is muted, dropped is the number of audio frames
\* dropped since the gate last went from idle to gated
C34_DroppedCountsSinceGated ==
    mute => dropped = DroppedSince(LastGated)

\* the log entry of the last caller-stopped frame that met the gate
\* enabled and armed, gated already or not
LastArmedStop ==
    LET S == {i \in 1..Len(gLog) :
                 /\ gLog[i].kind = "UserStoppedSpeakingFrame"
                 /\ gLog[i].en /\ gLog[i].armed}
    IN  IF S = {} THEN 0 ELSE CHOOSE i \in S : \A j \in S : j <= i

\* what the counter does hold while muted: the audio frames dropped since
\* the last caller-stopped frame that met the gate armed
DroppedCountsSinceArmedStop ==
    mute => dropped = DroppedSince(LastArmedStop)

\* C32: under round_robin the delay an injector has picked is one of the
\* injector's own candidates, self._choices
C32_RoundRobinPicksOwnChoice ==
    (strategy = "round_robin" /\ latency_seconds # NoLatency) =>
        latency_seconds \in Elems(choices)

\* where the picks do come from: random draws from the injector's own
\* candidates, round_robin from the module's LATENCY_CHOICES
PicksFromStrategySource ==
    latency_seconds # NoLatency =>
        IF strategy = "random" THEN latency_seconds \in Elems(choices)
        ELSE latency_seconds \in {30, 70, 1}

\* C35: in a session, every delay the injector has waited in a hold is the
\* delay written to the call record at setup, and the injector's chosen
\* delay stays the recorded one
C35_HoldsUseRecordedDelay ==
    /\ [](iSlept # NoLatency => (recorded # NoLatency /\ iSlept = recorded))
    /\ [](connected => (recorded # NoLatency /\ latency_seconds = recorded))
    /\ [][(iPc = "sleep" /\ iPc' = "check") => iSlept' = recorded]_vars

\* the hold of the second caller turn has just ended, after the recorded
\* 7 seconds, under the random strategy
C35_Witness ==
    /\ strategy = "random"
    /\ recorded = 70
    /\ turns >= 2
    /\ Len(iOut) >= NGreet + 1
    /\ iPc = "check"
    /\ iCur.kind = "OpenAILLMContextFrame"
    /\ iSlept = 70

\* C36 as stated: the mute signals sent upstream begin with mute-on and
\* strictly alternate
C36_MuteSignalsAlternate ==
    /\ (iUp # <<>> => iUp[1] = TRUE)
    /\ \A i \in 1..(Len(iUp) - 1) : iUp[i] # iUp[i + 1]

\* C36: the mute signals sent upstream begin with mute-on, and every
\* mute-off comes directly after a mute-on, so that no two mute-offs
\* follow one another
C36_UnmuteAnswersMute ==
    /\ (iUp # <<>> => iUp[1] = TRUE)
    /\ \A i \in 1..(Len(iUp) - 1) : (iUp[i + 1] = FALSE => iUp[i] = TRUE)

\* two context frames with no TTSSpeakFrame between them gave two mute-ons;
\* the TTSSpeakFrame after them gave one mute-off, a second TTSSpeakFrame
\* none
C36_Witness ==
    /\ iUp = <<TRUE, TRUE, FALSE>>
    /\ Len(iOut) = 4
    /\ iOut[3].kind = "TTSSpeakFrame" /\ iOut[3].dir = "DOWNSTREAM"
    /\ iOut[4].kind = "TTSSpeakFrame" /\ iOut[4].dir = "DOWNSTREAM"
    /\ ~busy

\* the frame in process_frame is an upstream frame, or a downstream frame
\* that is neither a context frame nor a TTSSpeakFrame
PlainFrame(f) ==
    \/ f.dir = "UPSTREAM"
    \/ /\ f.dir = "DOWNSTREAM"
       /\ f.kind \notin {"OpenAILLMContextFrame", "LLMMessagesFrame",
                          "TTSSpeakFrame"}

\* what a step may do to the frame in process_frame and to the output
FrameKeptAndPushedOnce ==
    /\ (iPc = "idle" /\ iPc' # "idle") =>
          /\ iQueue # <<>>
          /\ iCur'.kind = Head(iQueue).kind
          /\ iCur'.dir = Head(iQueue).dir
          /\ iQueue' = Tail(iQueue)
    /\ (iPc # "idle") =>
          /\ iCur'.kind = iCur.kind
          /\ iCur'.dir = iCur.dir
    /\ (iOut' # iOut) =>
          /\ iPc # "idle" /\ iPc' = "idle"
          /\ iOut' = Append(iOut, [kind |-> iCur.kind, dir |-> iCur.dir])
    /\ (iPc # "idle" /\ iPc' = "idle") => iOut' # iOut

\* a step of process_frame for a plain frame leaves the injector as it is
PlainFrameHasNoEffect ==
    (iPc' # iPc /\ PlainFrame(iCur')) =>
        /\ busy' = busy
        /\ latency_seconds' = latency_seconds
        /\ iUp' = iUp

C38_CtorNeverOverwrites ==
    [][\A t \in Threads :
          /\ (pc[t] = "ctor_open" /\ pc'[t] = "ctor_dump") => file = NoFile
          /\ (pc[t] = "ctor_dump" /\ pc'[t] = "ready") =>
                Issued \cap Elems(file'.data) = {}]_vars

====
